---- MODULE Spec2Model ----
(***************************************************************************)
(* A model of the asset-collection and IAM-merge pipeline of the           *)
(* compliance_checks service (src/app/helper.py, src/app/gcp_helper.py,    *)
(* src/app/buckets.py, src/app/instances.py), of its persistence backends  *)
(* (src/app/mock_db.py, src/app/firestore_db.py, the mock one also under   *)
(* concurrent callers) and of the endpoints of src/app/main.py.            *)
(*                                                                         *)
(* Conventions                                                             *)
(*   - A Python Optional[T] is a sequence of length <= 1: None is << >>,   *)
(*     a value x is <<x>>.                                                 *)
(*   - A Python str that the code takes apart (a canonical resource name,  *)
(*     an ancestor path) is the sequence of its tokens, a token being "/"  *)
(*     or a maximal run of characters without "/".  Split and StartsWith   *)
(*     compute on that sequence what str.split('/') and str.startswith     *)
(*     compute on the string.                                              *)
(*   - An object that lacks an attribute is a record that lacks the field: *)
(*     hasattr(asset, 'name') is "name" \in DOMAIN asset.                  *)
(*   - An f-string message is the tuple of its parts.                      *)
(*   - A Python str that the code only compares, joins or tests for a      *)
(*     prefix (a document id, a parent scope) is a string.                 *)
(*   - A dict is a function from its keys; a method that changes the       *)
(*     caller's dict in place returns the dict as it is after the call.    *)
(*   - An exception is the string naming it (its class and what str(e)     *)
(*     holds); StrContains says which substrings str(e) contains.         *)
(***************************************************************************)
EXTENDS Integers, Sequences, FiniteSets, TLC

VARIABLES
    op,         \* the synchronous collection function that ran last ("idle": none)
    arg,        \* its argument (project_id or parent scope)
    cloud,      \* what the cloud APIs answered to it
    ret,        \* what it returned or raised
    main,       \* the concurrent collector's main coroutine: function, position, arguments
    tasks,      \* the coroutines it dispatched, each with the tasks it dispatched itself
    reply,      \* what the collector returned or raised to its caller
    db,         \* the persistence backend: its kind, tables and id counter
    call,       \* the database or endpoint call made last, with its arguments
    retval,     \* what that call returned or raised, and the caller's dict after it
    log,        \* the records saved since the backend was made or reset, oldest first
    threads     \* the threads calling into one MockDatabase, each with the call it is in

vars == <<op, arg, cloud, ret, main, tasks, reply, db, call, retval, log, threads>>
inventoryVars == <<op, arg, cloud, ret>>
collectorVars == <<main, tasks, reply>>
storeVars == <<db, call, retval, log, threads>>

-----------------------------------------------------------------------------
(* Bounds *)

MaxResourceAssets == 2
MaxIamAssets == 2
MaxZones == 1          \* zones a caller names
MaxInstances == 2      \* instances the project holds, over all zones
MaxResources == 2      \* resources search_all_resources finds
MaxSaves == 2          \* records saved since the backend was made or reset
MaxThreads == 3        \* threads calling into one MockDatabase at a time
MaxCollected == 1      \* assets a listing answers collect_compliance_data with

-----------------------------------------------------------------------------
(* Python values *)

None == << >>
Some(x) == <<x>>

SeqsUpTo(S, n) == UNION {[1..k -> S] : k \in 0..n}

Slash == "/"

\* str.split('/') on a token sequence: the pieces between the "/" tokens, "" for
\* an empty piece.
RECURSIVE SplitFrom(_, _, _, _)
SplitFrom(s, i, cur, acc) ==
    IF i > Len(s) THEN Append(acc, cur)
    ELSE IF s[i] = Slash THEN SplitFrom(s, i + 1, "", Append(acc, cur))
    ELSE SplitFrom(s, i + 1, s[i], acc)

Split(s) == SplitFrom(s, 1, "", << >>)

StartsWith(s, prefix) == Len(s) >= Len(prefix) /\ SubSeq(s, 1, Len(prefix)) = prefix

HasAttr(obj, field) == field \in DOMAIN obj

Ok(v) == [ok |-> TRUE, val |-> v]
Raise(e) == [ok |-> FALSE, exc |-> e]

-----------------------------------------------------------------------------
(* The inventory's universe: names, bindings, policies, assets *)

InstanceType == "compute.googleapis.com/Instance"
BucketType == "storage.googleapis.com/Bucket"

ComputePrefix == <<"/", "/", "compute.googleapis.com", "/">>

\* <prefix>projects/P/zones/Z/instances/I
CanonicalInstanceName(prefix, P, Z, I) ==
    prefix \o <<"projects", "/", P, "/", "zones", "/", Z, "/", "instances", "/", I>>

NameFull == CanonicalInstanceName(ComputePrefix, "p1", "z1", "vm1")
NameRel == CanonicalInstanceName(<< >>, "p1", "z1", "vm2")
\* malformed instance names: 2 segments, and 8 segments (the instance id cut off)
NameShort == <<"projects", "/", "p1">>
NameEight == ComputePrefix \o <<"projects", "/", "p1", "/", "zones", "/", "z1", "/", "instances">>
NameBucket == <<"/", "/", "storage.googleapis.com", "/", "b1">>
NameBucket2 == <<"/", "/", "storage.googleapis.com", "/", "b2">>

BindingPublic == [role |-> "roles/viewer", members |-> <<"allUsers">>, condition |-> None]
BindingCond ==
    [role |-> "roles/admin", members |-> <<"user:a@x.com", "group:g@x.com">>,
     condition |-> Some([title |-> "expiry", description |-> "d", expression |-> "request.time < t"])]

\* upstream google.iam.v1 Policy messages
PolicyEmpty == [version |-> "1", bindings |-> << >>, etag |-> "e0"]
PolicyOne == [version |-> "1", bindings |-> <<BindingPublic>>, etag |-> "e1"]
PolicyCond == [version |-> "3", bindings |-> <<BindingCond, BindingPublic>>, etag |-> "e3"]

AncNearest == << <<"projects", "/", "789">>, <<"folders", "/", "456">>, <<"organizations", "/", "123">> >>
AncFarthest == << <<"organizations", "/", "123">>, <<"folders", "/", "456">>, <<"projects", "/", "789">> >>
AncRepeated ==
    << <<"projects", "/", "789">>, <<"organizations", "/", "123">>,
       <<"projects", "/", "111">>, <<"organizations", "/", "999">> >>
AncFolderOnly == << <<"folders", "/", "456">> >>

\* RESOURCE content: the listing entries of the project's instances
ResourceAssetUniverse ==
    { [name |-> NameFull, asset_type |-> InstanceType],
      [name |-> NameRel, asset_type |-> InstanceType],
      [name |-> NameShort, asset_type |-> InstanceType],
      [asset_type |-> InstanceType] }

\* IAM_POLICY content, instances
IamInstanceUniverse ==
    { [name |-> NameFull, asset_type |-> InstanceType, ancestors |-> AncNearest, iam_policy |-> Some(PolicyOne)],
      [name |-> NameFull, asset_type |-> InstanceType, ancestors |-> AncFarthest, iam_policy |-> Some(PolicyEmpty)],
      [name |-> NameRel, asset_type |-> InstanceType, ancestors |-> AncRepeated, iam_policy |-> Some(PolicyCond)],
      [name |-> NameRel, asset_type |-> InstanceType, iam_policy |-> None],
      [name |-> NameShort, asset_type |-> InstanceType, ancestors |-> AncFolderOnly, iam_policy |-> Some(PolicyOne)],
      [name |-> NameEight, asset_type |-> InstanceType, ancestors |-> << >>, iam_policy |-> Some(PolicyCond)],
      [asset_type |-> InstanceType, ancestors |-> AncNearest, iam_policy |-> Some(PolicyOne)] }

\* IAM_POLICY content, buckets
IamBucketUniverse ==
    { [name |-> NameBucket, asset_type |-> BucketType, ancestors |-> AncNearest, iam_policy |-> Some(PolicyOne)],
      [name |-> NameBucket, asset_type |-> BucketType, ancestors |-> AncRepeated, iam_policy |-> Some(PolicyCond)],
      [name |-> NameBucket2, asset_type |-> BucketType, ancestors |-> AncFarthest, iam_policy |-> Some(PolicyEmpty)],
      [name |-> NameBucket2, asset_type |-> BucketType, iam_policy |-> None],
      [asset_type |-> BucketType, ancestors |-> AncNearest, iam_policy |-> Some(PolicyOne)] }

ProjectIds == {"p1"}
Parents == {"folders/111", "organizations/123"}
Timestamps == {"t1", "t2"}

\* bool(x) of an Optional message field
Truthy(x) == x # None

\* getattr(asset, 'name', 'unknown')
NameOrUnknown(asset) == IF HasAttr(asset, "name") THEN asset.name ELSE <<"unknown">>

-----------------------------------------------------------------------------
(* gcp_helper.py: pure helpers *)

RECURSIVE ScanAncestors(_, _, _)
ScanAncestors(ancestors, i, info) ==
    IF i > Len(ancestors) THEN info
    ELSE IF StartsWith(ancestors[i], <<"projects", "/">>)
         THEN ScanAncestors(ancestors, i + 1, [info EXCEPT !.project_number = Split(ancestors[i])[2]])
    ELSE IF StartsWith(ancestors[i], <<"organizations", "/">>)
         THEN ScanAncestors(ancestors, i + 1, [info EXCEPT !.organization_id = Split(ancestors[i])[2]])
    ELSE ScanAncestors(ancestors, i + 1, info)

extract_ancestors_info(asset) ==
    IF HasAttr(asset, "ancestors") /\ asset.ancestors # << >>
    THEN ScanAncestors(asset.ancestors, 1, [project_number |-> "unknown", organization_id |-> "unknown"])
    ELSE [project_number |-> "unknown", organization_id |-> "unknown"]

\* {"role": b.role, "members": list(b.members)}
RoleMembers(b) == [role |-> b.role, members |-> b.members]

\* extract_bindings(iam_policy): iam_policy is the Optional message
extract_bindings(iam_policy) ==
    IF Truthy(iam_policy) /\ iam_policy[1].bindings # << >>
    THEN Some([bindings |-> [n \in 1..Len(iam_policy[1].bindings) |-> RoleMembers(iam_policy[1].bindings[n])]])
    ELSE None

\* dict.get(key)
DictGet(d, key) == IF key \in DOMAIN d THEN Some(d[key]) ELSE None

HTTPException(code) == [status_code |-> code]

\* The outer except clauses of every fetch_* function: what the failure of the
\* listing call (or of default()) becomes.
ListingFailure(status) ==
    IF status = "PermissionDenied" THEN Raise(HTTPException(403)) ELSE Raise(HTTPException(500))

-----------------------------------------------------------------------------
(* gcp_helper.py / instances.py: fetch_vm_iam_policies_asset_api *)

\* the entries the comprehension {a.name: a.iam_policy for a in iam_assets if a.iam_policy} keeps
IamDictKept(iam_assets) == {i \in 1..Len(iam_assets) : Truthy(iam_assets[i].iam_policy)}

\* the dict: a later entry with the same name replaces an earlier one
IamDict(iam_assets) ==
    LET kept == IamDictKept(iam_assets)
        last(n) == CHOOSE i \in kept :
                     /\ iam_assets[i].name = n
                     /\ \A j \in kept : iam_assets[j].name = n => j <= i
    IN  [n \in {iam_assets[i].name : i \in kept} |-> iam_assets[last(n)].iam_policy]

\* the body of the merge loop's try block for one RESOURCE asset
VmPolicy(asset, iam_dict, project_id) ==
    IF ~HasAttr(asset, "name") THEN Raise("AttributeError: name")
    ELSE Ok([project_id |-> project_id,
             resource_name |-> asset.name,
             asset_type |-> asset.asset_type,
             policy |-> IF asset.name \in DOMAIN iam_dict
                        THEN extract_bindings(iam_dict[asset.name])
                        ELSE None,
             error |-> None])

\* for asset in resource_assets: try ... policies.append / except ... errors.append
RECURSIVE MergeLoop(_, _, _, _, _)
MergeLoop(resource_assets, iam_dict, project_id, i, acc) ==
    IF i > Len(resource_assets) THEN acc
    ELSE LET r == VmPolicy(resource_assets[i], iam_dict, project_id)
         IN  MergeLoop(resource_assets, iam_dict, project_id, i + 1,
                 IF r.ok
                 THEN [acc EXCEPT !.policies = Append(@, r.val)]
                 ELSE [acc EXCEPT !.errors =
                          Append(@, <<"Failed to process VM instance",
                                      NameOrUnknown(resource_assets[i]), r.exc>>)])

\* a merge that also emits a record for a name of the dict that no RESOURCE
\* asset carries
MergeRecordsWithUnlisted(resource_assets, iam_dict, project_id) ==
    LET m == MergeLoop(resource_assets, iam_dict, project_id, 1, [policies |-> << >>, errors |-> << >>])
        unlisted == DOMAIN iam_dict \ {resource_assets[i].name :
                                          i \in {j \in 1..Len(resource_assets) : HasAttr(resource_assets[j], "name")}}
    IN  IF unlisted = {} THEN m
        ELSE LET n == CHOOSE x \in unlisted : TRUE
             IN  [m EXCEPT !.policies = Append(@, [project_id |-> project_id, resource_name |-> n,
                                                  asset_type |-> InstanceType,
                                                  policy |-> extract_bindings(iam_dict[n]),
                                                  error |-> None])]

\* the merge loop from its start
MergeRecords(resource_assets, iam_dict, project_id) ==
    MergeLoop(resource_assets, iam_dict, project_id, 1, [policies |-> << >>, errors |-> << >>])

fetch_vm_iam_policies_asset_api(project_id, api) ==
    IF api.status # "ok" THEN ListingFailure(api.status)
    ELSE IF \E i \in IamDictKept(api.iam_assets) : ~HasAttr(api.iam_assets[i], "name")
         THEN Raise(HTTPException(500))     \* the comprehension is outside the loop's try
    ELSE LET m == MergeRecords(api.resource_assets, IamDict(api.iam_assets), project_id)
         IN  Ok([project_id |-> project_id,
                 policies |-> m.policies,
                 total_policies |-> Len(m.policies),
                 errors |-> m.errors])

-----------------------------------------------------------------------------
(* gcp_helper.py: the folder / organization collection functions *)

\* asset.name.split('/')[4] if len(asset.name.split('/')) > 4 else "unknown"
ProjectIdOfName(name) == IF Len(Split(name)) > 4 THEN Split(name)[5] ELSE "unknown"

\* name_parts[-1] if len(name_parts) > 0 else "unknown"
LastPartOfName(name) == IF Len(Split(name)) > 0 THEN Split(name)[Len(Split(name))] ELSE "unknown"

\* name_parts[3] if len(name_parts) > 3 else "unknown"
ZoneOfName(name) == IF Len(Split(name)) > 3 THEN Split(name)[4] ELSE "unknown"

\* if asset.iam_policy and asset.iam_policy.bindings: policy = extract_bindings(...)
PolicyIfBindings(asset) ==
    IF Truthy(asset.iam_policy) /\ asset.iam_policy[1].bindings # << >>
    THEN extract_bindings(asset.iam_policy)
    ELSE None

\* the policy dict the *_folder_org record functions build from bindings_data
PolicyWithMeta(asset) ==
    IF Truthy(asset.iam_policy) /\ asset.iam_policy[1].bindings # << >>
    THEN LET bindings_data == extract_bindings(asset.iam_policy)[1]
         IN  Some([bindings |-> bindings_data.bindings,
                   version |-> DictGet(bindings_data, "version"),
                   etag |-> DictGet(bindings_data, "etag")])
    ELSE None

FolderOrgVmPolicy(asset) ==
    IF ~HasAttr(asset, "name") THEN Raise("AttributeError: name")
    ELSE Ok([project_id |-> ProjectIdOfName(asset.name),
             resource_name |-> asset.name,
             asset_type |-> asset.asset_type,
             policy |-> PolicyIfBindings(asset),
             error |-> None])

RECURSIVE FolderOrgVmLoop(_, _, _)
FolderOrgVmLoop(iam_assets, i, acc) ==
    IF i > Len(iam_assets) THEN acc
    ELSE LET r == FolderOrgVmPolicy(iam_assets[i])
         IN  FolderOrgVmLoop(iam_assets, i + 1,
                 IF r.ok
                 THEN [acc EXCEPT !.policies = Append(@, r.val)]
                 ELSE [acc EXCEPT !.errors =
                          Append(@, <<"Failed to process VM instance",
                                      NameOrUnknown(iam_assets[i]), r.exc>>)])

fetch_vm_iam_policies_folder_org(parent, api) ==
    IF api.status # "ok" THEN ListingFailure(api.status)
    ELSE LET m == FolderOrgVmLoop(api.iam_assets, 1, [policies |-> << >>, errors |-> << >>])
         IN  Ok([project_id |-> parent,
                 policies |-> m.policies,
                 total_policies |-> Len(m.policies),
                 errors |-> m.errors])

InstanceRecord(asset, parent, now) ==
    IF ~HasAttr(asset, "name") THEN Raise("AttributeError: name")
    ELSE Ok([parent_scope |-> parent,
             project_number |-> extract_ancestors_info(asset).project_number,
             organization_id |-> extract_ancestors_info(asset).organization_id,
             instance_name |-> LastPartOfName(asset.name),
             zone |-> ZoneOfName(asset.name),
             asset_name |-> asset.name,
             asset_type |-> asset.asset_type,
             policy |-> PolicyWithMeta(asset),
             timestamp |-> now])

BucketRecord(asset, parent, now) ==
    IF ~HasAttr(asset, "name") THEN Raise("AttributeError: name")
    ELSE Ok([parent_scope |-> parent,
             project_number |-> extract_ancestors_info(asset).project_number,
             organization_id |-> extract_ancestors_info(asset).organization_id,
             bucket_name |-> LastPartOfName(asset.name),
             asset_name |-> asset.name,
             asset_type |-> asset.asset_type,
             policy |-> PolicyWithMeta(asset),
             timestamp |-> now])

\* for asset in iam_assets: try ... instances.append / except: logged only
RECURSIVE InstancesLoop(_, _, _, _, _)
InstancesLoop(iam_assets, parent, now, i, instances) ==
    IF i > Len(iam_assets) THEN instances
    ELSE LET r == InstanceRecord(iam_assets[i], parent, now)
         IN  InstancesLoop(iam_assets, parent, now, i + 1,
                 IF r.ok THEN Append(instances, r.val) ELSE instances)

RECURSIVE BucketsLoop(_, _, _, _, _)
BucketsLoop(response, parent, now, i, buckets) ==
    IF i > Len(response) THEN buckets
    ELSE LET r == BucketRecord(response[i], parent, now)
         IN  BucketsLoop(response, parent, now, i + 1,
                 IF r.ok THEN Append(buckets, r.val) ELSE buckets)

fetch_vm_instances_folder_org(parent, api, now) ==
    IF api.status # "ok" THEN ListingFailure(api.status)
    ELSE Ok(InstancesLoop(api.iam_assets, parent, now, 1, << >>))

fetch_buckets_folder_org(parent, api, now) ==
    IF api.status # "ok" THEN ListingFailure(api.status)
    ELSE Ok(BucketsLoop(api.iam_assets, parent, now, 1, << >>))

-----------------------------------------------------------------------------
(* buckets.py: the per-bucket processing and get_bucket_policies *)

\* BucketPolicy objects
fetch_bucket_iam(asset, project_id) ==
    LET bindings == IF Truthy(asset.iam_policy)
                    THEN [n \in 1..Len(asset.iam_policy[1].bindings) |->
                            RoleMembers(asset.iam_policy[1].bindings[n])]
                    ELSE << >>
    IN  IF HasAttr(asset, "name")
        THEN [project_id |-> project_id,
              resource_name |-> asset.name,
              asset_type |-> asset.asset_type,
              policy |-> IF bindings # << >> THEN Some([bindings |-> bindings]) ELSE Some(<< >>),
              error |-> None]
        ELSE [project_id |-> project_id,
              resource_name |-> NameOrUnknown(asset),
              asset_type |-> asset.asset_type,
              policy |-> None,
              error |-> Some("AttributeError: name")]

\* gcp_helper.py's variant of the same per-bucket function
process_bucket_asset(asset, project_id) ==
    LET bindings == IF Truthy(asset.iam_policy)
                    THEN [n \in 1..Len(asset.iam_policy[1].bindings) |->
                            RoleMembers(asset.iam_policy[1].bindings[n])]
                    ELSE << >>
    IN  IF HasAttr(asset, "name")
        THEN [project_id |-> project_id,
              resource_name |-> asset.name,
              asset_type |-> asset.asset_type,
              policy |-> IF bindings # << >> THEN Some([bindings |-> bindings]) ELSE None,
              error |-> None]
        ELSE [project_id |-> project_id,
              resource_name |-> NameOrUnknown(asset),
              asset_type |-> asset.asset_type,
              policy |-> None,
              error |-> Some("AttributeError: name")]

\* buckets.get_bucket_policies: every task is fetch_bucket_iam on one asset, run in
\* the default executor; gather returns the results in task order.
buckets_get_bucket_policies(project_id, api) ==
    IF api.status # "ok" THEN ListingFailure(api.status)
    ELSE IF api.iam_assets = << >>
         THEN Ok([project_id |-> project_id, policies |-> << >>, total_policies |-> 0, errors |-> << >>])
    ELSE LET policies == [i \in 1..Len(api.iam_assets) |-> fetch_bucket_iam(api.iam_assets[i], project_id)]
         IN  Ok([project_id |-> project_id,
                 policies |-> policies,
                 total_policies |-> Len(policies),
                 errors |-> << >>])

\* gcp_helper.get_bucket_policies, the definition the routes import: its task
\* list names fetch_bucket_iam, which gcp_helper.py neither defines nor imports
\* (its per-bucket function is process_bucket_asset), so building the list for
\* a listing that is not empty raises NameError, and the outer except clause
\* turns that into HTTP 500
get_bucket_policies(project_id, api) ==
    IF api.status # "ok" THEN ListingFailure(api.status)
    ELSE IF api.iam_assets = << >>
         THEN Ok([project_id |-> project_id, policies |-> << >>, total_policies |-> 0, errors |-> << >>])
    ELSE Raise(HTTPException(500))

-----------------------------------------------------------------------------
(* helper.py: exceptions, policy conversion, the per-item coroutines *)

\* Exceptions, each named by what str(e) gives.
PermissionDeniedExc == "403 Permission denied on resource"    \* google.api_core PermissionDenied
HttpError403 == "<HttpError 403 forbidden>"                   \* googleapiclient HttpError
HttpError404 == "<HttpError 404 not found>"
HttpError500 == "<HttpError 500 backend error>"
KeyErrorName == "'name'"                                      \* KeyError('name')
AttributeErrorName == "AttributeError: name"
IndexErrorRange == "list index out of range"
ClientInitFailed == "500: Failed to initialize Google Cloud client"

\* sub in str(e), for the substrings the handlers look for
StrContains(e, sub) ==
    CASE e = PermissionDeniedExc -> sub \in {"403", "Permission denied"}
      [] e = HttpError403 -> sub \in {"403", "forbidden"}
      [] e = HttpError404 -> sub \in {"404", "not found"}
      [] OTHER -> FALSE

\* except gcp_exceptions.PermissionDenied
IsPermissionDenied(e) == e = PermissionDeniedExc

\* dict.get(key, default)
DictGetOr(d, key, default) == IF key \in DOMAIN d THEN d[key] ELSE default

\* what instances().getIamPolicy(...).execute() answers: dicts
PolicyDictEtagOnly == [etag |-> "e0"]
PolicyDictBindings ==
    [version |-> "3", etag |-> "e3",
     bindings |-> << [role |-> "roles/viewer", members |-> <<"allUsers">>],
                     [role |-> "roles/admin", members |-> <<"user:a@x.com">>,
                      condition |-> [title |-> "expiry", expression |-> "request.time < t"]] >>]

IamOutcomes ==
    { Ok(PolicyDictBindings), Ok(PolicyDictEtagOnly),
      Raise(PermissionDeniedExc), Raise(HttpError403), Raise(HttpError500) }

ConvertBinding(binding) ==
    [role |-> DictGetOr(binding, "role", ""),
     members |-> DictGetOr(binding, "members", << >>),
     condition |-> IF "condition" \in DOMAIN binding /\ DOMAIN binding.condition # {}
                   THEN Some([title |-> DictGetOr(binding.condition, "title", ""),
                              description |-> DictGetOr(binding.condition, "description", ""),
                              expression |-> DictGetOr(binding.condition, "expression", "")])
                   ELSE None]

\* convert_policy_to_pydantic(policy): policy is a dict; an empty dict is falsy
convert_policy_to_pydantic(policy) ==
    IF DOMAIN policy = {} THEN None
    ELSE LET policy_bindings == DictGetOr(policy, "bindings", << >>)
         IN
         Some([version |-> DictGet(policy, "version"),
               bindings |-> [n \in 1..Len(policy_bindings) |-> ConvertBinding(policy_bindings[n])],
               etag |-> DictGet(policy, "etag")])

\* PolicyResponse(project_id=..., resource_name=..., asset_type=..., policy=..., error=...)
PolicyResponse(project_id, resource_name, asset_type, policy, error) ==
    [project_id |-> project_id, resource_name |-> resource_name,
     asset_type |-> asset_type, policy |-> policy, error |-> error]

\* process_instance_policy's except clause
InstancePolicyFailure(project_id, resource_name, e) ==
    IF StrContains(e, "403") \/ StrContains(e, "Permission denied")
    THEN PolicyResponse(project_id, resource_name, InstanceType, None, Some("Permission denied"))
    ELSE PolicyResponse(project_id, resource_name, InstanceType, None, Some(e))

\* process_instance_policy(service, project_id, zone, instance); iam is what
\* getIamPolicy answers.  The outcome of the coroutine: a PolicyResponse, or the
\* KeyError of instance['name'], which is outside its try.
process_instance_policy(project_id, zone, instance, iam) ==
    IF ~HasAttr(instance, "name") THEN Raise(KeyErrorName)
    ELSE LET resource_name == CanonicalInstanceName(<< >>, project_id, zone, instance.name)
         IN  IF iam.ok
             THEN Ok(PolicyResponse(project_id, resource_name, InstanceType,
                                    convert_policy_to_pydantic(iam.val), None))
             ELSE Ok(InstancePolicyFailure(project_id, resource_name, iam.exc))

\* process_zone_instances' except clause treating every failure of the listing
\* like a 404
ZoneFailureSilent(zone, e) == <<<< >>, << >>, 0>>

\* process_zone_instances' except clause: the (policies, errors, count) it returns
ZoneFailure(zone, e) ==
    IF StrContains(e, "404") \/ StrContains(e, "not found")
    THEN <<<< >>, << >>, 0>>
    ELSE IF StrContains(e, "403") \/ StrContains(e, "forbidden")
    THEN <<<< >>, <<<<"Permission denied for zone", zone, e>>>>, 0>>
    ELSE <<<< >>, <<<<"Failed to process zone", zone, e>>>>, 0>>

\* process_zone_instances with a gather that lets the first exception through:
\* the zone's except clause then answers for the whole zone
RECURSIVE ZoneAggregateAborting(_, _, _, _, _)
ZoneAggregateAborting(instance_policies, zone, i, policies, errors) ==
    IF i > Len(instance_policies) THEN <<policies, errors, Len(instance_policies)>>
    ELSE IF ~instance_policies[i].ok
    THEN <<<< >>, <<<<"Failed to process zone", zone, instance_policies[i].exc>>>>, 0>>
    ELSE ZoneAggregateAborting(instance_policies, zone, i + 1,
             Append(policies, instance_policies[i].val), errors)

\* the loop over gather's results in process_zone_instances
RECURSIVE ZoneAggregate(_, _, _, _, _)
ZoneAggregate(instance_policies, zone, i, policies, errors) ==
    IF i > Len(instance_policies) THEN <<policies, errors, Len(instance_policies)>>
    ELSE IF ~instance_policies[i].ok
    THEN ZoneAggregate(instance_policies, zone, i + 1, policies,
             Append(errors, <<"Failed to process instance in zone", zone, instance_policies[i].exc>>))
    ELSE ZoneAggregate(instance_policies, zone, i + 1,
             Append(policies, instance_policies[i].val), errors)

\* fetch_iam_policies_for_project collecting the zone results as they complete
\* (asyncio.as_completed instead of gather): the i-th result taken is that of
\* the zone coroutine that finished i-th
RECURSIVE ProjectAggregateAsCompleted(_, _, _, _)
ProjectAggregateAsCompleted(zone_results, zones, i, acc) ==
    IF i > Len(zone_results) THEN acc
    ELSE LET k == CHOOSE z \in 1..Len(tasks) : tasks[z].at = <<i - 1>>
         IN  IF ~zone_results[k].ok
             THEN ProjectAggregateAsCompleted(zone_results, zones, i + 1,
                      [acc EXCEPT !.all_errors = Append(@, <<"Failed to process zone", zones[k], zone_results[k].exc>>)])
             ELSE ProjectAggregateAsCompleted(zone_results, zones, i + 1,
                      [all_policies |-> acc.all_policies \o zone_results[k].val[1],
                       all_errors |-> acc.all_errors \o zone_results[k].val[2],
                       total_instances_found |-> acc.total_instances_found + zone_results[k].val[3]])

\* the loop over gather's zone results in fetch_iam_policies_for_project
RECURSIVE ProjectAggregate(_, _, _, _)
ProjectAggregate(zone_results, zones, i, acc) ==
    IF i > Len(zone_results) THEN acc
    ELSE IF ~zone_results[i].ok
    THEN ProjectAggregate(zone_results, zones, i + 1,
             [acc EXCEPT !.all_errors = Append(@, <<"Failed to process zone", zones[i], zone_results[i].exc>>)])
    ELSE ProjectAggregate(zone_results, zones, i + 1,
             [all_policies |-> acc.all_policies \o zone_results[i].val[1],
              all_errors |-> acc.all_errors \o zone_results[i].val[2],
              total_instances_found |-> acc.total_instances_found + zone_results[i].val[3]])

\* a response whose total_policies counts the error entries too
ProjectPoliciesResponseCountingErrors(project_id, policies, errors) ==
    [project_id |-> project_id, policies |-> policies,
     total_policies |-> Len(policies) + Len(errors), errors |-> errors]

\* ProjectPoliciesResponse(project_id=..., policies=..., total_policies=len(...),
\* errors=...)
ProjectPoliciesResponse(project_id, policies, errors) ==
    [project_id |-> project_id, policies |-> policies,
     total_policies |-> Len(policies), errors |-> errors]

\* get_zones_for_project
DefaultZones == <<"asia-southeast1-a", "asia-southeast1-b", "asia-southeast1-c">>

\* The getIamPolicy request process_resource_policy_asset_api builds from the
\* resource name: parts[4], parts[6], parts[8] when len(parts) >= 8.
ResourceRequest(name) ==
    LET parts == Split(name)
    IN  IF Len(parts) >= 8
        THEN IF Len(parts) >= 9
             THEN Ok(Some([project |-> parts[5], zone |-> parts[7], resource |-> parts[9]]))
             ELSE Raise(IndexErrorRange)
        ELSE Ok(None)

\* process_resource_policy_asset_api(resource, project_id); service is whether
\* get_compute_service succeeds, iam what getIamPolicy answers.
process_resource_policy_asset_api(resource, project_id, service, iam) ==
    IF ~HasAttr(resource, "name") THEN Raise(AttributeErrorName)   \* raised again in the handler
    ELSE IF resource.asset_type # InstanceType
    THEN Ok(PolicyResponse(project_id, resource.name, resource.asset_type, None, None))
    ELSE LET req == ResourceRequest(resource.name)
         IN  IF ~req.ok
             THEN Ok(PolicyResponse(project_id, resource.name, resource.asset_type, None, Some(req.exc)))
             ELSE IF req.val = None
             THEN Ok(PolicyResponse(project_id, resource.name, resource.asset_type, None, None))
             ELSE IF ~service
             THEN Ok(PolicyResponse(project_id, resource.name, resource.asset_type, None, Some(ClientInitFailed)))
             ELSE IF iam.ok
             THEN Ok(PolicyResponse(project_id, resource.name, resource.asset_type,
                                    convert_policy_to_pydantic(iam.val), None))
             ELSE IF IsPermissionDenied(iam.exc)
             THEN Ok(PolicyResponse(project_id, resource.name, resource.asset_type, None, Some("Permission denied")))
             ELSE Ok(PolicyResponse(project_id, resource.name, resource.asset_type, None, Some(iam.exc)))

\* the loop over gather's results in fetch_iam_policies_asset_api
RECURSIVE ResourceAggregate(_, _, _)
ResourceAggregate(policy_results, i, acc) ==
    IF i > Len(policy_results) THEN acc
    ELSE IF ~policy_results[i].ok
    THEN ResourceAggregate(policy_results, i + 1,
             [acc EXCEPT !.errors = Append(@, <<"Failed to process resource", policy_results[i].exc>>)])
    ELSE ResourceAggregate(policy_results, i + 1,
             [acc EXCEPT !.policies = Append(@, policy_results[i].val)])

\* what search_all_resources finds
ResourceSearchUniverse ==
    { [name |-> NameFull, asset_type |-> InstanceType],
      [name |-> NameRel, asset_type |-> InstanceType],
      [name |-> NameEight, asset_type |-> InstanceType],
      [name |-> NameShort, asset_type |-> InstanceType],
      [name |-> NameBucket, asset_type |-> BucketType],
      [asset_type |-> InstanceType] }

\* whether process_resource_policy_asset_api reaches get_compute_service for it
IssuesRequest(resource) ==
    /\ HasAttr(resource, "name")
    /\ resource.asset_type = InstanceType
    /\ ResourceRequest(resource.name).ok
    /\ ResourceRequest(resource.name).val # None

\* What the Compute API answers to one resource's coroutine: None when the
\* coroutine asks nothing, else whether the client could be built and, if so,
\* what getIamPolicy gave.
ResourceAnswers(resource) ==
    IF ~IssuesRequest(resource) THEN {None}
    ELSE {Some([service |-> FALSE])} \cup {Some([service |-> TRUE, iam |-> o]) : o \in IamOutcomes}

ProcessResource(resource, project_id, answer) ==
    IF answer = None
    THEN process_resource_policy_asset_api(resource, project_id, TRUE, Raise(HttpError500))
    ELSE IF ~answer[1].service
    THEN process_resource_policy_asset_api(resource, project_id, FALSE, Raise(HttpError500))
    ELSE process_resource_policy_asset_api(resource, project_id, TRUE, answer[1].iam)

-----------------------------------------------------------------------------
(* The synchronous collection functions as operations: one call at a time,   *)
(* the Asset Inventory's answer drawn when the call is made.                 *)

ListingFailures ==
    { [status |-> st, resource_assets |-> << >>, iam_assets |-> << >>] : st \in {"PermissionDenied", "Error"} }

\* the answers of the two list_assets calls of fetch_vm_iam_policies_asset_api
VmListings ==
    { [status |-> "ok", resource_assets |-> m, iam_assets |-> i] :
        m \in SeqsUpTo(ResourceAssetUniverse, MaxResourceAssets),
        i \in SeqsUpTo(IamInstanceUniverse, MaxIamAssets) } \cup ListingFailures

\* the answer of the single IAM_POLICY list_assets call of the other functions
IamListings(universe) ==
    { [status |-> "ok", resource_assets |-> << >>, iam_assets |-> i] :
        i \in SeqsUpTo(universe, MaxIamAssets) } \cup ListingFailures

NoCloud == [status |-> "ok", resource_assets |-> << >>, iam_assets |-> << >>]

InventoryIdle ==
    /\ op = "idle"
    /\ arg = ""
    /\ cloud = NoCloud
    /\ ret = Ok(<< >>)

CollectorIdle ==
    /\ main = [fn |-> "none", pc |-> "idle"]
    /\ tasks = << >>
    /\ reply = Ok(<< >>)

\* an empty dict
EmptyDict == << >>

\* MockDatabase.__init__; FirestoreDatabase.__init__ (three empty collections;
\* Firestore keeps no counter, the field stays 0)
MockDatabaseInit ==
    [kind |-> "mock", buckets |-> EmptyDict, instances |-> EmptyDict,
     compliance_data |-> EmptyDict, counter |-> 0]
FirestoreDatabaseInit ==
    [kind |-> "firestore", buckets |-> EmptyDict, instances |-> EmptyDict,
     compliance_data |-> EmptyDict, counter |-> 0]

\* no database call has been made
NoRequest == [op |-> "none"]
NoResponse == [ret |-> Ok(<< >>)]
NoThreads == [t \in 1..MaxThreads |-> [pc |-> "idle"]]

StoreIdle ==
    /\ db = MockDatabaseInit
    /\ call = NoRequest
    /\ retval = NoResponse
    /\ log = << >>
    /\ threads = NoThreads

InventoryInit == InventoryIdle /\ CollectorIdle /\ StoreIdle

CallFetchVmIamPoliciesAssetApi ==
    /\ op = "idle"
    /\ UNCHANGED <<collectorVars, storeVars>>
    /\ \E project_id \in ProjectIds, api \in VmListings :
         /\ op' = "fetch_vm_iam_policies_asset_api"
         /\ arg' = project_id
         /\ cloud' = api
         /\ ret' = fetch_vm_iam_policies_asset_api(project_id, api)

CallFetchVmIamPoliciesFolderOrg ==
    /\ op = "idle"
    /\ UNCHANGED <<collectorVars, storeVars>>
    /\ \E parent \in Parents, api \in IamListings(IamInstanceUniverse) :
         /\ op' = "fetch_vm_iam_policies_folder_org"
         /\ arg' = parent
         /\ cloud' = api
         /\ ret' = fetch_vm_iam_policies_folder_org(parent, api)

CallFetchVmInstancesFolderOrg ==
    /\ op = "idle"
    /\ UNCHANGED <<collectorVars, storeVars>>
    /\ \E parent \in Parents, api \in IamListings(IamInstanceUniverse), now \in Timestamps :
         /\ op' = "fetch_vm_instances_folder_org"
         /\ arg' = parent
         /\ cloud' = api
         /\ ret' = fetch_vm_instances_folder_org(parent, api, now)

CallFetchBucketsFolderOrg ==
    /\ op = "idle"
    /\ UNCHANGED <<collectorVars, storeVars>>
    /\ \E parent \in Parents, api \in IamListings(IamBucketUniverse), now \in Timestamps :
         /\ op' = "fetch_buckets_folder_org"
         /\ arg' = parent
         /\ cloud' = api
         /\ ret' = fetch_buckets_folder_org(parent, api, now)

CallBucketsGetBucketPolicies ==
    /\ op = "idle"
    /\ UNCHANGED <<collectorVars, storeVars>>
    /\ \E project_id \in ProjectIds, api \in IamListings(IamBucketUniverse) :
         /\ op' = "buckets.get_bucket_policies"
         /\ arg' = project_id
         /\ cloud' = api
         /\ ret' = buckets_get_bucket_policies(project_id, api)

\* GET /bucket-iam-policies-asset-api/{project_id}
CallGetBucketPolicies ==
    /\ op = "idle"
    /\ UNCHANGED <<collectorVars, storeVars>>
    /\ \E project_id \in ProjectIds, api \in IamListings(IamBucketUniverse) :
         /\ op' = "get_bucket_policies"
         /\ arg' = project_id
         /\ cloud' = api
         /\ ret' = get_bucket_policies(project_id, api)

\* one resource of a search result, processed on its own
CallProcessResourcePolicyAssetApi ==
    /\ op = "idle"
    /\ UNCHANGED <<collectorVars, storeVars>>
    /\ \E project_id \in ProjectIds, resource \in ResourceSearchUniverse :
       \E answer \in ResourceAnswers(resource) :
         /\ op' = "process_resource_policy_asset_api"
         /\ arg' = project_id
         /\ cloud' = [status |-> "ok", resource_assets |-> <<resource>>, iam_assets |-> << >>,
                      answer |-> answer]
         /\ ret' = ProcessResource(resource, project_id, answer)

\* the caller takes the answer; the next call starts from scratch
InventoryReturn ==
    /\ op # "idle"
    /\ UNCHANGED <<collectorVars, storeVars>>
    /\ op' = "idle"
    /\ arg' = ""
    /\ cloud' = NoCloud
    /\ ret' = Ok(<< >>)

InventoryNext ==
    \/ CallFetchVmIamPoliciesAssetApi
    \/ CallFetchVmIamPoliciesFolderOrg
    \/ CallFetchVmInstancesFolderOrg
    \/ CallFetchBucketsFolderOrg
    \/ CallBucketsGetBucketPolicies
    \/ CallGetBucketPolicies
    \/ CallProcessResourcePolicyAssetApi
    \/ InventoryReturn

SpecInventory == InventoryInit /\ [][InventoryNext]_vars

-----------------------------------------------------------------------------
(* helper.py: the concurrent collectors.  Every await is a step: a coroutine  *)
(* that awaits an API call resumes in a later step, with the answer drawn     *)
(* then; a coroutine that awaits gather resumes once all its tasks are done.  *)

ZoneUniverse == {"us-central1-a", "us-central1-b"}
ZoneArgs == SeqsUpTo(ZoneUniverse, MaxZones)

\* the entries of instances().list()'s 'items'
InstanceUniverse == { [name |-> "vm1"], [name |-> "vm2"], [id |-> "7"] }

\* instances the zone coroutines have listed so far
RECURSIVE ListedFrom(_, _)
ListedFrom(ts, k) == IF k > Len(ts) THEN 0 ELSE Len(ts[k].sub) + ListedFrom(ts, k + 1)
Listed(ts) == ListedFrom(ts, 1)

\* how many of the dispatched zone coroutines have finished, and how many of the
\* instance coroutines of zone task k: a coroutine that finishes is stamped with
\* the number that finished before it (the completion order gather sees)
ZonesFinished == Cardinality({k \in 1..Len(tasks) : tasks[k].pc = "done"})
InstancesFinished(k) == Cardinality({j \in 1..Len(tasks[k].sub) : tasks[k].sub[j].result # None})

\* what instances().list(project, zone).execute() answers, the project holding
\* at most `room` more instances; a zone lists an instance once
ListOutcomes(room) ==
    { Raise(HttpError404), Raise(HttpError403), Raise(HttpError500), Ok([kind |-> "compute#instanceList"]) }
    \cup { Ok([kind |-> "compute#instanceList", items |-> items]) :
             items \in {s \in SeqsUpTo(InstanceUniverse, room) \ {<< >>} :
                          \A i, j \in 1..Len(s) : s[i] = s[j] => i = j} }

\* what client.search_all_resources(request) answers
SearchOutcomes ==
    { Raise(PermissionDeniedExc), Raise(HttpError500) }
    \cup { Ok(resources) : resources \in SeqsUpTo(ResourceSearchUniverse, MaxResources) }

\* the caller repeats a call it has made, against an unchanged backend: main
\* then holds the answers every API call of the first call received
Repeated == HasAttr(main, "backend")

\* the answers instances().list may give the k-th zone coroutine
ListAnswers(k) ==
    IF Repeated THEN {main.backend[k].listed}
    ELSE ListOutcomes(MaxInstances - Listed(tasks))

\* the answers getIamPolicy may give the j-th instance coroutine of the k-th
\* zone; a coroutine that never asked is not answered
IamAnswers(k, j) ==
    IF Repeated /\ main.backend[k].iam[j] # None THEN {main.backend[k].iam[j][1]}
    ELSE IamOutcomes

CollectorInit == InventoryIdle /\ CollectorIdle /\ StoreIdle

\* fetch_iam_policies_for_project up to its gather over the zones
StartProject ==
    /\ main.pc = "idle"
    /\ UNCHANGED <<inventoryVars, storeVars>>
    /\ \E project_id \in ProjectIds, zones \in ZoneArgs, service \in BOOLEAN :
         IF ~service
         THEN /\ main' = [fn |-> "fetch_iam_policies_for_project", pc |-> "done",
                          project_id |-> project_id, zones |-> zones]
              /\ tasks' = << >>
              /\ reply' = Raise(HTTPException(500))
         ELSE LET zs == IF zones = << >> THEN DefaultZones ELSE zones
              IN  /\ main' = [fn |-> "fetch_iam_policies_for_project", pc |-> "gather",
                              project_id |-> project_id, zones |-> zs]
                  /\ tasks' = [k \in 1..Len(zs) |->
                                 [pc |-> "list", zone |-> zs[k], listed |-> None,
                                  sub |-> << >>, result |-> None, at |-> None]]
                  /\ reply' = reply

\* process_zone_instances resumes after its listing call
ZoneListReturns(k) ==
    /\ main.fn = "fetch_iam_policies_for_project"
    /\ main.pc = "gather"
    /\ tasks[k].pc = "list"
    /\ UNCHANGED <<inventoryVars, storeVars, main, reply>>
    /\ \E outcome \in ListAnswers(k) :
         LET instances == IF outcome.ok THEN DictGetOr(outcome.val, "items", << >>) ELSE << >>
         IN  tasks' = [tasks EXCEPT ![k] =
                 IF ~outcome.ok
                 THEN [@ EXCEPT !.pc = "done", !.listed = Some(outcome), !.at = Some(ZonesFinished),
                                !.result = Some(Ok(ZoneFailure(tasks[k].zone, outcome.exc)))]
                 ELSE IF instances = << >>
                 THEN [@ EXCEPT !.pc = "done", !.listed = Some(outcome), !.at = Some(ZonesFinished),
                                !.result = Some(Ok(<<<< >>, << >>, 0>>))]
                 ELSE [@ EXCEPT !.pc = "gather", !.listed = Some(outcome),
                                !.sub = [j \in 1..Len(instances) |->
                                           [instance |-> instances[j], iam |-> None, result |-> None,
                                            at |-> None]]]]

\* process_instance_policy runs to its end: getIamPolicy answers, unless the
\* coroutine failed before asking
InstanceReturns(k, j) ==
    /\ main.fn = "fetch_iam_policies_for_project"
    /\ tasks[k].pc = "gather"
    /\ tasks[k].sub[j].result = None
    /\ UNCHANGED <<inventoryVars, storeVars, main, reply>>
    /\ \E iam \in IamAnswers(k, j) :
         LET instance == tasks[k].sub[j].instance
             outcome == process_instance_policy(main.project_id, tasks[k].zone, instance, iam)
         IN  tasks' = [tasks EXCEPT ![k].sub[j] =
                 [@ EXCEPT !.iam = IF HasAttr(instance, "name") THEN Some(iam) ELSE None,
                           !.result = Some(outcome),
                           !.at = Some(InstancesFinished(k))]]

\* process_zone_instances returning as soon as one instance coroutine is done
\* (asyncio.wait(..., return_when=FIRST_COMPLETED) instead of gather), with the
\* results it has by then
ZoneGathersFirstCompleted(k) ==
    /\ main.fn = "fetch_iam_policies_for_project"
    /\ tasks[k].pc = "gather"
    /\ \E j \in 1..Len(tasks[k].sub) : tasks[k].sub[j].result # None
    /\ UNCHANGED <<inventoryVars, storeVars, main, reply>>
    /\ LET finished == SelectSeq(tasks[k].sub, LAMBDA t : t.result # None)
       IN  tasks' = [tasks EXCEPT ![k] =
               [@ EXCEPT !.pc = "done", !.at = Some(ZonesFinished),
                         !.result = Some(Ok(ZoneAggregate([j \in 1..Len(finished) |-> finished[j].result[1]],
                                                          tasks[k].zone, 1, << >>, << >>)))]]

\* process_zone_instances resumes after gather and returns
ZoneGathers(k) ==
    /\ main.fn = "fetch_iam_policies_for_project"
    /\ tasks[k].pc = "gather"
    /\ \A j \in 1..Len(tasks[k].sub) : tasks[k].sub[j].result # None
    /\ UNCHANGED <<inventoryVars, storeVars, main, reply>>
    /\ tasks' = [tasks EXCEPT ![k] =
           [@ EXCEPT !.pc = "done", !.at = Some(ZonesFinished),
                     !.result = Some(Ok(ZoneAggregate([j \in 1..Len(tasks[k].sub) |-> tasks[k].sub[j].result[1]],
                                                      tasks[k].zone, 1, << >>, << >>)))]]

\* fetch_iam_policies_for_project resumes after gather and returns
ProjectGathers ==
    /\ main.fn = "fetch_iam_policies_for_project"
    /\ main.pc = "gather"
    /\ \A k \in 1..Len(tasks) : tasks[k].pc = "done"
    /\ UNCHANGED <<inventoryVars, storeVars, tasks>>
    /\ LET agg == ProjectAggregate([k \in 1..Len(tasks) |-> tasks[k].result[1]], main.zones, 1,
                                   [all_policies |-> << >>, all_errors |-> << >>,
                                    total_instances_found |-> 0])
       IN  reply' = Ok(ProjectPoliciesResponse(main.project_id, agg.all_policies, agg.all_errors))
    /\ main' = [main EXCEPT !.pc = "done"]

\* fetch_iam_policies_asset_api up to its gather over the resources
StartAssetApi ==
    /\ main.pc = "idle"
    /\ UNCHANGED <<inventoryVars, storeVars>>
    /\ \E project_id \in ProjectIds, client \in BOOLEAN, search \in SearchOutcomes :
         LET m == [fn |-> "fetch_iam_policies_asset_api", pc |-> "done",
                   project_id |-> project_id, search |-> IF client THEN Some(search) ELSE None]
         IN  IF ~client
             THEN /\ main' = m
                  /\ tasks' = << >>
                  /\ reply' = Raise(HTTPException(500))
             ELSE IF ~search.ok
             THEN /\ main' = m
                  /\ tasks' = << >>
                  /\ reply' = IF IsPermissionDenied(search.exc)
                              THEN Raise(HTTPException(403))
                              ELSE Raise(HTTPException(500))
             ELSE IF search.val = << >>
             THEN /\ main' = m
                  /\ tasks' = << >>
                  /\ reply' = Ok([project_id |-> project_id, policies |-> << >>,
                                  total_policies |-> 0, errors |-> << >>])
             ELSE /\ main' = [m EXCEPT !.pc = "gather"]
                  /\ tasks' = [j \in 1..Len(search.val) |->
                                 [pc |-> "run", resource |-> search.val[j],
                                  answer |-> None, result |-> None]]
                  /\ reply' = reply

\* process_resource_policy_asset_api runs to its end
ResourceReturns(j) ==
    /\ main.fn = "fetch_iam_policies_asset_api"
    /\ main.pc = "gather"
    /\ tasks[j].pc = "run"
    /\ UNCHANGED <<inventoryVars, storeVars, main, reply>>
    /\ \E answer \in ResourceAnswers(tasks[j].resource) :
         tasks' = [tasks EXCEPT ![j] =
             [@ EXCEPT !.pc = "done", !.answer = answer,
                       !.result = Some(ProcessResource(tasks[j].resource, main.project_id, answer))]]

\* fetch_iam_policies_asset_api resumes after gather and returns
AssetApiGathers ==
    /\ main.fn = "fetch_iam_policies_asset_api"
    /\ main.pc = "gather"
    /\ \A j \in 1..Len(tasks) : tasks[j].pc = "done"
    /\ UNCHANGED <<inventoryVars, storeVars, tasks>>
    /\ LET agg == ResourceAggregate([j \in 1..Len(tasks) |-> tasks[j].result[1]], 1,
                                    [policies |-> << >>, errors |-> << >>])
       IN  reply' = Ok(ProjectPoliciesResponse(main.project_id, agg.policies, agg.errors))
    /\ main' = [main EXCEPT !.pc = "done"]

\* the caller takes the answer; the next call starts from scratch
CollectorReturn ==
    /\ main.pc = "done"
    /\ UNCHANGED <<inventoryVars, storeVars>>
    /\ main' = [fn |-> "none", pc |-> "idle"]
    /\ tasks' = << >>
    /\ reply' = Ok(<< >>)

\* the tasks gather is waiting for
ZoneTasks == IF main.fn = "fetch_iam_policies_for_project" THEN 1..Len(tasks) ELSE {}
ResourceTasks == IF main.fn = "fetch_iam_policies_asset_api" THEN 1..Len(tasks) ELSE {}

CollectorNext ==
    \/ StartProject
    \/ \E k \in ZoneTasks : ZoneListReturns(k)
    \/ \E k \in ZoneTasks : \E j \in 1..Len(tasks[k].sub) : InstanceReturns(k, j)
    \/ \E k \in ZoneTasks : ZoneGathers(k)
    \/ ProjectGathers
    \/ StartAssetApi
    \/ \E j \in ResourceTasks : ResourceReturns(j)
    \/ AssetApiGathers
    \/ CollectorReturn

SpecCollector == CollectorInit /\ [][CollectorNext]_vars

-----------------------------------------------------------------------------
(* The same collection run twice against an unchanged backend *)

\* fetch_iam_policies_for_project called again with the same arguments, up to
\* its gather over the zones; the caller keeps the first result
Recollect ==
    /\ main.fn = "fetch_iam_policies_for_project"
    /\ main.pc = "done"
    /\ reply.ok
    /\ ~Repeated
    /\ UNCHANGED <<inventoryVars, storeVars>>
    /\ main' = [fn |-> main.fn, pc |-> "gather", project_id |-> main.project_id, zones |-> main.zones,
                backend |-> [k \in 1..Len(tasks) |->
                               [listed |-> tasks[k].listed[1],
                                iam |-> [j \in 1..Len(tasks[k].sub) |-> tasks[k].sub[j].iam]]],
                first |-> reply]
    /\ tasks' = [k \in 1..Len(tasks) |->
                   [pc |-> "list", zone |-> main.zones[k], listed |-> None,
                    sub |-> << >>, result |-> None, at |-> None]]
    /\ reply' = Ok(<< >>)

\* fetch_vm_instances_folder_org called again with the same parent, the
\* inventory listing what it listed; the caller keeps the first result
FetchAgain ==
    /\ op = "fetch_vm_instances_folder_org"
    /\ ~HasAttr(ret, "first")
    /\ UNCHANGED <<collectorVars, storeVars, op, arg, cloud>>
    /\ \E now \in Timestamps :
         LET second == fetch_vm_instances_folder_org(arg, cloud, now)
         IN  ret' = IF second.ok
                    THEN [ok |-> TRUE, val |-> second.val, first |-> ret]
                    ELSE [ok |-> FALSE, exc |-> second.exc, first |-> ret]

\* the caller makes one call at a time
RecollectNext ==
    \/ op = "idle" /\ StartProject
    \/ \E k \in ZoneTasks : ZoneListReturns(k)
    \/ \E k \in ZoneTasks : \E j \in 1..Len(tasks[k].sub) : InstanceReturns(k, j)
    \/ \E k \in ZoneTasks : ZoneGathers(k)
    \/ ProjectGathers
    \/ Recollect
    \/ CollectorReturn
    \/ main.pc = "idle" /\ CallFetchVmInstancesFolderOrg
    \/ FetchAgain
    \/ InventoryReturn

SpecRecollect == CollectorInit /\ [][RecollectNext]_vars

-----------------------------------------------------------------------------
(* mock_db.py, firestore_db.py: the persistence backends; main.py:           *)
(* collect_compliance_data.  No method awaits between its reads and writes   *)
(* of the tables: each runs to its end in one step.                          *)

\* dict operations; a dict is a function from its keys
DictSet(d, key, value) == [k \in DOMAIN d \cup {key} |-> IF k = key THEN value ELSE d[k]]
DictDel(d, key) == [k \in DOMAIN d \ {key} |-> d[k]]

\* MockDatabase._generate_id: the id made of the incremented counter
GenerateId(counter) == "mock_" \o ToString(counter + 1)

\* MockDatabase.save_bucket_record / save_instance_record /
\* save_compliance_data: the database, the caller's dict and the return value
\* after the call
MockSave(d, table, record, now) ==
    LET doc_id == GenerateId(d.counter)
        stamped == DictSet(DictSet(record, "id", doc_id), "timestamp", now)
    IN  [db |-> [d EXCEPT ![table] = DictSet(@, doc_id, stamped), !.counter = @ + 1],
         record |-> stamped,
         ret |-> Ok(doc_id)]

\* dict.get(key) is falsy: the key is missing or its value is ""
Missing(d, key) == DictGet(d, key) = None \/ DictGet(d, key) = Some("")

\* FirestoreDatabase.save_bucket_record
FirestoreSaveBucket(d, record, now) ==
    LET stamped == DictSet(record, "timestamp", now)
    IN  IF Missing(stamped, "bucket_name")
        THEN [db |-> d, record |-> stamped,
              ret |-> Raise("ValueError: bucket_name is required for document ID")]
        ELSE [db |-> [d EXCEPT !.buckets = DictSet(@, stamped.bucket_name, stamped)],
              record |-> stamped,
              ret |-> Ok(stamped.bucket_name)]

\* FirestoreDatabase.save_instance_record
FirestoreSaveInstance(d, record, now) ==
    LET stamped == DictSet(record, "timestamp", now)
    IN  IF Missing(stamped, "project_number") \/ Missing(stamped, "instance_name")
        THEN [db |-> d, record |-> stamped,
              ret |-> Raise("ValueError: project_number and instance_name are required for document ID")]
        ELSE LET zone_part == IF ~Missing(stamped, "zone") /\ stamped.zone # "unknown"
                              THEN stamped.zone ELSE "unknown"
                 doc_id == stamped.project_number \o "-" \o zone_part \o "-" \o stamped.instance_name
             IN  [db |-> [d EXCEPT !.instances = DictSet(@, doc_id, stamped)],
                  record |-> stamped,
                  ret |-> Ok(doc_id)]

\* db.save_bucket_record / db.save_instance_record of the configured backend
save_bucket_record(d, record, now) ==
    IF d.kind = "mock" THEN MockSave(d, "buckets", record, now)
    ELSE FirestoreSaveBucket(d, record, now)

save_instance_record(d, record, now) ==
    IF d.kind = "mock" THEN MockSave(d, "instances", record, now)
    ELSE FirestoreSaveInstance(d, record, now)

\* MockDatabase.get_compliance_data: data.copy() if data else None
get_compliance_data(d, doc_id) ==
    LET data == DictGet(d.compliance_data, doc_id)
    IN  IF data # None /\ DOMAIN data[1] # {} THEN data ELSE None

\* MockDatabase.delete_compliance_data emptying the table when it finds the id
delete_compliance_data_clearing(d, doc_id) ==
    IF doc_id \in DOMAIN d.compliance_data
    THEN [db |-> [d EXCEPT !.compliance_data = EmptyDict], ret |-> Ok(TRUE)]
    ELSE [db |-> d, ret |-> Ok(FALSE)]

\* MockDatabase.delete_compliance_data: the database and the return value
delete_compliance_data(d, doc_id) ==
    IF doc_id \in DOMAIN d.compliance_data
    THEN [db |-> [d EXCEPT !.compliance_data = DictDel(@, doc_id)], ret |-> Ok(TRUE)]
    ELSE [db |-> d, ret |-> Ok(FALSE)]

\* records[:limit]
Take(records, limit) == SubSeq(records, 1, IF Len(records) < limit THEN Len(records) ELSE limit)

\* a keyword argument of a query; one that is not passed has its default None
QueryArg(kwargs, key) == IF key \in DOMAIN kwargs THEN kwargs[key] ELSE None

\* list(self._buckets.values()): a dict keeps insertion order, which is the
\* order of the numbers in the ids
MockValues(table) ==
    LET ids == SelectSeq([n \in 1..MaxSaves + 1 |-> GenerateId(n - 1)], LAMBDA id : id \in DOMAIN table)
    IN  [i \in 1..Len(ids) |-> table[ids[i]]]

\* MockDatabase.get_buckets
MockGetBuckets(d, kwargs) ==
    LET folder_id == QueryArg(kwargs, "folder_id")
        org_id == QueryArg(kwargs, "org_id")
        project_number == QueryArg(kwargs, "project_number")
        target_scope == IF StartsWith(folder_id[1], "folders/") THEN folder_id[1]
                        ELSE "folders/" \o folder_id[1]
        all == MockValues(d.buckets)
        in_folder == IF Truthy(folder_id)
                     THEN SelectSeq(all, LAMBDA r : DictGet(r, "parent_scope") = Some(target_scope))
                     ELSE all
        in_org == IF Truthy(org_id)
                  THEN SelectSeq(in_folder, LAMBDA r : DictGet(r, "organization_id") = org_id)
                  ELSE in_folder
        in_project == IF Truthy(project_number)
                      THEN SelectSeq(in_org, LAMBDA r : DictGet(r, "project_number") = project_number)
                      ELSE in_org
    IN  Ok(Take(in_project, kwargs.limit))

\* the document ids of the bucket collection in the order a Firestore query
\* without order_by streams them: ascending by document id
BucketIdsInOrder == <<"b1", "b2">>

\* FirestoreDatabase.get_buckets(folder_id, org_id, limit): the method has no
\* project_number parameter; both filters are where clauses on parent_scope
FirestoreGetBuckets(d, kwargs) ==
    IF "project_number" \in DOMAIN kwargs
    THEN Raise("TypeError: get_buckets() got an unexpected keyword argument 'project_number'")
    ELSE LET folder_id == QueryArg(kwargs, "folder_id")
             org_id == QueryArg(kwargs, "org_id")
             ids == SelectSeq(BucketIdsInOrder, LAMBDA id : id \in DOMAIN d.buckets)
             in_folder == IF Truthy(folder_id)
                          THEN SelectSeq(ids, LAMBDA id :
                                   DictGet(d.buckets[id], "parent_scope") = Some("folders/" \o folder_id[1]))
                          ELSE ids
             in_org == IF Truthy(org_id)
                       THEN SelectSeq(in_folder, LAMBDA id :
                                DictGet(d.buckets[id], "parent_scope") = Some("organizations/" \o org_id[1]))
                       ELSE in_folder
             docs == Take(in_org, kwargs.limit)
         IN  Ok([i \in 1..Len(docs) |-> DictSet(d.buckets[docs[i]], "id", docs[i])])

\* db.get_buckets(...) of the configured backend
get_buckets(d, kwargs) ==
    IF d.kind = "mock" THEN MockGetBuckets(d, kwargs) ELSE FirestoreGetBuckets(d, kwargs)

\* the queries of GET /buckets (folder_id, org_id, limit) and of
\* GET /list-bucket-policies (org_id, project_number, limit)
BucketQueries ==
    { [folder_id |-> f, org_id |-> o, limit |-> l] :
        f \in {None, Some("111")}, o \in {None, Some("123")}, l \in {1, 100} }
    \cup
    { [org_id |-> o, project_number |-> p, limit |-> l] :
        o \in {None, Some("123")}, p \in {None, Some("789")}, l \in {100} }

\* the records of a table that stay when a scope is deleted:
\* record.get("parent_scope") == parent_scope selects the ones to delete
KeptRecords(table, parent_scope) ==
    [id \in {k \in DOMAIN table : DictGet(table[k], "parent_scope") # Some(parent_scope)} |-> table[id]]

\* delete_records_by_scope deleting from the bucket table only
delete_records_by_scope_buckets_only(d, parent_scope) ==
    [db |-> [d EXCEPT !.buckets = KeptRecords(@, parent_scope)],
     buckets_deleted |-> Cardinality(DOMAIN d.buckets) - Cardinality(DOMAIN KeptRecords(d.buckets, parent_scope)),
     instances_deleted |-> 0,
     ret |-> Ok(TRUE)]

\* MockDatabase.delete_records_by_scope / FirestoreDatabase.delete_records_by_scope:
\* the database, the counts the method logs and the return value
delete_records_by_scope(d, parent_scope) ==
    [db |-> [d EXCEPT !.buckets = KeptRecords(@, parent_scope),
                      !.instances = KeptRecords(@, parent_scope)],
     buckets_deleted |-> Cardinality(DOMAIN d.buckets) - Cardinality(DOMAIN KeptRecords(d.buckets, parent_scope)),
     instances_deleted |-> Cardinality(DOMAIN d.instances) - Cardinality(DOMAIN KeptRecords(d.instances, parent_scope)),
     ret |-> Ok(TRUE)]

\* the scopes a caller deletes: those records are collected under, and one
\* nothing was collected under
DeleteScopes == Parents \cup {"folders/999"}

\* the records the folder / organization collection hands to the database,
\* created at t1
NamedAssets(universe) == {a \in universe : HasAttr(a, "name")}
BucketRecords ==
    {BucketRecord(a, parent, "t1").val : a \in NamedAssets(IamBucketUniverse), parent \in Parents}
InstanceRecords ==
    {InstanceRecord(a, parent, "t1").val : a \in NamedAssets(IamInstanceUniverse), parent \in Parents}

\* compliance data as the tests save it: a fresh dict, and the copy of a dict
\* that was saved before
ComplianceDocs ==
    { [project_id |-> "test-project-123", errors |-> << >>],
      [project_id |-> "another-project-456", errors |-> << >>, id |-> "mock_1", timestamp |-> "t1"] }

\* the ids a caller asks for: those the mock database hands out, and one more
DocIds == {"mock_" \o ToString(n) : n \in 1..MaxSaves + 1}

\* keyword arguments: the dict of the arguments that were passed
Kwargs(passed) == [k \in {a \in DOMAIN passed : passed[a] # None} |-> passed[k][1]]

\* the keyword arguments the tests and callers construct a request with
RequestKwargs ==
    { Kwargs([project_id |-> p, folder_id |-> f, org_id |-> o,
              include_vm_policies |-> vm, include_bucket_policies |-> b]) :
        p \in {None, Some("test-project-123")},
        f \in {None, Some("folders/123456789")},
        o \in {None, Some("organizations/987654321")},
        vm \in {Some(TRUE)},
        b \in {Some(TRUE)} }

\* ComplianceDataRequest.__init__(**data): the model's fields are set from the
\* arguments of the same name (any other argument is ignored), then the check
ComplianceDataRequest(data) ==
    LET self == [folder_id |-> DictGet(data, "folder_id"),
                 org_id |-> DictGet(data, "org_id"),
                 include_vm_policies |-> DictGetOr(data, "include_vm_policies", TRUE),
                 include_bucket_policies |-> DictGetOr(data, "include_bucket_policies", TRUE)]
    IN  IF ~Truthy(self.folder_id) /\ ~Truthy(self.org_id)
        THEN Raise("ValueError: Either folder_id or org_id must be provided")
        ELSE Ok(self)

\* ComplianceDataRequest(folder_id=..., org_id=..., include_vm_policies=...,
\* include_bucket_policies=...)
ComplianceDataRequests ==
    { [folder_id |-> ids[1], org_id |-> ids[2], include_vm_policies |-> vm, include_bucket_policies |-> b] :
        ids \in { <<Some("111"), None>>, <<None, Some("organizations/123")>> },
        vm \in BOOLEAN, b \in BOOLEAN }

\* collect_compliance_data: the parent scope of the request
ParentOf(request) ==
    LET parent == IF Truthy(request.folder_id) THEN request.folder_id[1] ELSE request.org_id[1]
    IN  IF StartsWith(parent, "folders/") \/ StartsWith(parent, "organizations/") THEN parent
        ELSE IF Truthy(request.folder_id) THEN "folders/" \o parent
        ELSE "organizations/" \o parent

\* for record in records: await db.save_..._record(record);
\*                         projects_discovered.add(record["project_id"])
\* up to the first exception: the database, the records (the saved ones
\* changed in place), how many were saved, the projects, the exception
RECURSIVE SaveLoop(_, _, _, _, _, _)
SaveLoop(d, table, records, now, i, projects) ==
    IF i > Len(records)
    THEN [db |-> d, records |-> records, saved |-> i - 1, projects |-> projects, exc |-> None]
    ELSE LET s == IF table = "instances" THEN save_instance_record(d, records[i], now)
                  ELSE save_bucket_record(d, records[i], now)
             after == [records EXCEPT ![i] = s.record]
         IN  IF ~s.ret.ok
             THEN [db |-> s.db, records |-> after, saved |-> i - 1, projects |-> projects,
                   exc |-> Some(s.ret.exc)]
             ELSE IF ~HasAttr(s.record, "project_id")
             THEN [db |-> s.db, records |-> after, saved |-> i, projects |-> projects,
                   exc |-> Some("'project_id'")]
             ELSE SaveLoop(s.db, table, after, now, i + 1, projects \cup {s.record.project_id})

\* one "if request.include_...: try: ... except Exception as e: errors.append"
\* block of collect_compliance_data; fetched is what the fetch_* call returned
\* or raised
CollectBlock(d, table, fetched, parent, now, message) ==
    IF ~fetched.ok
    THEN [db |-> d, records |-> << >>, saved |-> 0, projects |-> {},
          errors |-> << <<message, parent, fetched.exc>> >>]
    ELSE LET s == SaveLoop(d, table, fetched.val, now, 1, {})
         IN  [db |-> s.db, records |-> s.records, saved |-> s.saved, projects |-> s.projects,
              errors |-> IF s.exc = None THEN << >> ELSE << <<message, parent, s.exc[1]>> >>]

\* a block that was not requested
NotCollected(d) == [db |-> d, records |-> << >>, saved |-> 0, projects |-> {}, errors |-> << >>]

\* the fields of the pydantic models BucketRecord and InstanceRecord
BucketRecordFields ==
    {"parent_scope", "project_number", "organization_id", "bucket_name", "asset_name",
     "asset_type", "policy", "timestamp"}
InstanceRecordFields ==
    {"parent_scope", "project_number", "organization_id", "instance_name", "asset_name",
     "asset_type", "zone", "policy", "timestamp"}

\* AssetCollectionResponse(...): the dicts become models, which keep the
\* models' fields; projects_discovered is list(set), its order unspecified
AssetCollectionResponse(parent, buckets, instances, projects, errors) ==
    [parent_scope |-> parent,
     buckets |-> [i \in 1..Len(buckets) |-> [f \in BucketRecordFields |-> buckets[i][f]]],
     instances |-> [i \in 1..Len(instances) |-> [f \in InstanceRecordFields |-> instances[i][f]]],
     total_buckets |-> Len(buckets),
     total_instances |-> Len(instances),
     projects_discovered |-> projects \ {"unknown"},
     errors |-> errors]

\* the listings the Asset Inventory answers collect_compliance_data with
CollectListings(universe) ==
    { [status |-> "ok", resource_assets |-> << >>, iam_assets |-> i] :
        i \in SeqsUpTo(universe, MaxCollected) } \cup ListingFailures

\* get_database(): the backend the environment selects
StoreInit ==
    /\ InventoryIdle
    /\ CollectorIdle
    /\ db \in {MockDatabaseInit, FirestoreDatabaseInit}
    /\ call = NoRequest
    /\ retval = NoResponse
    /\ log = << >>
    /\ threads = NoThreads

\* the saves the database has taken since it was made or reset
Logged(table, record, s) ==
    IF s.ret.ok THEN Append(log, [table |-> table, record |-> record]) ELSE log

SaveBucketRecord ==
    /\ Len(log) < MaxSaves
    /\ db.counter < MaxSaves
    /\ UNCHANGED <<inventoryVars, collectorVars, threads>>
    /\ \E record \in BucketRecords, now \in Timestamps :
         LET s == save_bucket_record(db, record, now)
         IN  /\ db' = s.db
             /\ call' = [op |-> "save_bucket_record", table |-> "buckets", record |-> record]
             /\ retval' = [ret |-> s.ret, record |-> s.record]
             /\ log' = Logged("buckets", record, s)

SaveInstanceRecord ==
    /\ Len(log) < MaxSaves
    /\ db.counter < MaxSaves
    /\ UNCHANGED <<inventoryVars, collectorVars, threads>>
    /\ \E record \in InstanceRecords, now \in Timestamps :
         LET s == save_instance_record(db, record, now)
         IN  /\ db' = s.db
             /\ call' = [op |-> "save_instance_record", table |-> "instances", record |-> record]
             /\ retval' = [ret |-> s.ret, record |-> s.record]
             /\ log' = Logged("instances", record, s)

SaveComplianceData ==
    /\ db.kind = "mock"
    /\ db.counter < MaxSaves
    /\ UNCHANGED <<inventoryVars, collectorVars, threads>>
    /\ \E data \in ComplianceDocs, now \in Timestamps :
         LET s == MockSave(db, "compliance_data", data, now)
         IN  /\ db' = s.db
             /\ call' = [op |-> "save_compliance_data", data |-> data]
             /\ retval' = [ret |-> s.ret, data |-> s.record]
             /\ log' = Logged("compliance_data", data, s)

GetComplianceData ==
    /\ db.kind = "mock"
    /\ UNCHANGED <<inventoryVars, collectorVars, db, log, threads>>
    /\ \E doc_id \in DocIds :
         /\ call' = [op |-> "get_compliance_data", doc_id |-> doc_id]
         /\ retval' = [ret |-> Ok(get_compliance_data(db, doc_id))]

DeleteComplianceData ==
    /\ db.kind = "mock"
    /\ UNCHANGED <<inventoryVars, collectorVars, log, threads>>
    /\ \E doc_id \in DocIds :
         LET s == delete_compliance_data(db, doc_id)
         IN  /\ db' = s.db
             /\ call' = [op |-> "delete_compliance_data", doc_id |-> doc_id]
             /\ retval' = [ret |-> s.ret]

\* MockDatabase.reset_database
ResetDatabase ==
    /\ db.kind = "mock"
    /\ UNCHANGED <<inventoryVars, collectorVars, threads>>
    /\ db' = MockDatabaseInit
    /\ call' = [op |-> "reset_database"]
    /\ retval' = [ret |-> Ok([buckets_deleted |-> Cardinality(DOMAIN db.buckets),
                            instances_deleted |-> Cardinality(DOMAIN db.instances),
                            compliance_data_deleted |-> Cardinality(DOMAIN db.compliance_data)])]
    /\ log' = << >>

\* the saves of the log that are still held once a scope is deleted and the
\* database is d: on the mock every save has a document of its own, which goes
\* with its scope; on Firestore a save is held as long as its document id is
SavesHeld(d, parent_scope) ==
    LET DocId(e) == IF e.table = "buckets"
                    THEN FirestoreSaveBucket(FirestoreDatabaseInit, e.record, "t1").ret.val
                    ELSE FirestoreSaveInstance(FirestoreDatabaseInit, e.record, "t1").ret.val
    IN  SelectSeq(log, LAMBDA e :
            \/ e.table = "compliance_data"
            \/ d.kind = "mock" /\ e.record.parent_scope # parent_scope
            \/ d.kind # "mock" /\ DocId(e) \in DOMAIN d[e.table])

\* DELETE /records/{parent_scope}: db.delete_records_by_scope(parent_scope)
DeleteRecordsByScope ==
    /\ UNCHANGED <<inventoryVars, collectorVars, threads>>
    /\ \E parent_scope \in DeleteScopes :
         LET s == delete_records_by_scope(db, parent_scope)
         IN  /\ db' = s.db
             /\ call' = [op |-> "delete_records_by_scope", parent_scope |-> parent_scope]
             /\ retval' = [ret |-> s.ret, buckets_deleted |-> s.buckets_deleted,
                           instances_deleted |-> s.instances_deleted]
             /\ log' = SavesHeld(s.db, parent_scope)

\* GET /buckets and GET /list-bucket-policies: db.get_buckets(...)
GetBuckets ==
    /\ UNCHANGED <<inventoryVars, collectorVars, db, log, threads>>
    /\ \E kwargs \in BucketQueries :
         /\ call' = [op |-> "get_buckets", kwargs |-> kwargs]
         /\ retval' = [ret |-> get_buckets(db, kwargs)]

\* a caller constructs a ComplianceDataRequest
ConstructRequest ==
    /\ UNCHANGED <<inventoryVars, collectorVars, db, log, threads>>
    /\ \E data \in RequestKwargs :
         /\ call' = [op |-> "ComplianceDataRequest", data |-> data]
         /\ retval' = [ret |-> ComplianceDataRequest(data)]

\* POST /compliance-data/collect
CollectComplianceData ==
    /\ Len(log) + 2 * MaxCollected <= MaxSaves
    /\ db.counter + 2 * MaxCollected <= MaxSaves
    /\ UNCHANGED <<inventoryVars, collectorVars, threads>>
    /\ \E request \in ComplianceDataRequests, now \in Timestamps, later \in Timestamps,
          vms \in CollectListings(IamInstanceUniverse), bs \in CollectListings(IamBucketUniverse) :
       \E fetched_vms \in {fetch_vm_instances_folder_org(ParentOf(request), vms, now)},
          fetched_bs \in {fetch_buckets_folder_org(ParentOf(request), bs, now)} :
       \E i \in {IF request.include_vm_policies
                 THEN CollectBlock(db, "instances", fetched_vms, ParentOf(request), later,
                                   "Failed to collect VM instances from")
                 ELSE NotCollected(db)} :
       \E b \in {IF request.include_bucket_policies
                 THEN CollectBlock(i.db, "buckets", fetched_bs, ParentOf(request), later,
                                   "Failed to collect buckets from")
                 ELSE NotCollected(i.db)} :
         /\ db' = b.db
         /\ call' = [op |-> "collect_compliance_data", request |-> request,
                     vms |-> IF request.include_vm_policies
                             THEN Some([listing |-> vms.status, fetched |-> fetched_vms]) ELSE None,
                     buckets |-> IF request.include_bucket_policies
                                 THEN Some([listing |-> bs.status, fetched |-> fetched_bs]) ELSE None]
         /\ retval' = [ret |-> Ok(AssetCollectionResponse(ParentOf(request), b.records, i.records,
                                                          i.projects \cup b.projects,
                                                          i.errors \o b.errors))]
         /\ log' = log \o [n \in 1..i.saved |-> [table |-> "instances", record |-> fetched_vms.val[n]]]
                       \o [n \in 1..b.saved |-> [table |-> "buckets", record |-> fetched_bs.val[n]]]

StoreNext ==
    \/ SaveBucketRecord
    \/ SaveInstanceRecord
    \/ SaveComplianceData
    \/ GetComplianceData
    \/ DeleteComplianceData
    \/ ResetDatabase
    \/ DeleteRecordsByScope
    \/ GetBuckets
    \/ ConstructRequest
    \/ CollectComplianceData

SpecStore == StoreInit /\ [][StoreNext]_vars

-----------------------------------------------------------------------------
(* mock_db.py: one MockDatabase called from several threads.  The class      *)
(* guards its counter and its tables with a threading.Lock; a thread holds   *)
(* the lock for one "with self._lock:" block, which is one step, and any     *)
(* other thread may run between two blocks of a method.  Each thread makes   *)
(* one call.                                                                 *)

\* what the threads save: the records of one folder run, and compliance data
ThreadSaves ==
    { [table |-> "buckets", record |-> r] : r \in {x \in BucketRecords : x.parent_scope = "folders/111"} }
    \cup { [table |-> "instances", record |-> r] : r \in {x \in InstanceRecords : x.parent_scope = "folders/111"} }
    \cup { [table |-> "compliance_data", record |-> r] : r \in ComplianceDocs }

\* save_*: doc_id = self._generate_id(), the block that increments the
\* counter; then the caller's dict gets the id and the timestamp
ThreadGeneratesId(t) ==
    /\ threads[t].pc = "idle"
    /\ UNCHANGED <<inventoryVars, collectorVars, call, retval, log>>
    /\ \E save \in ThreadSaves, now \in Timestamps :
         /\ db' = [db EXCEPT !.counter = @ + 1]
         /\ threads' = [threads EXCEPT ![t] =
                [pc |-> "generated", table |-> save.table, doc_id |-> GenerateId(db.counter),
                 record |-> DictSet(DictSet(save.record, "id", GenerateId(db.counter)), "timestamp", now)]]

\* save_*: the block self._table[doc_id] = record.copy(); return doc_id
ThreadWrites(t) ==
    /\ threads[t].pc = "generated"
    /\ UNCHANGED <<inventoryVars, collectorVars, call, retval, log>>
    /\ db' = [db EXCEPT ![threads[t].table] = DictSet(@, threads[t].doc_id, threads[t].record)]
    /\ threads' = [threads EXCEPT ![t].pc = "saved"]

\* reset_database: one block
ThreadResets(t) ==
    /\ threads[t].pc = "idle"
    /\ UNCHANGED <<inventoryVars, collectorVars, call, retval, log>>
    /\ db' = MockDatabaseInit
    /\ threads' = [threads EXCEPT ![t] = [pc |-> "reset"]]

ThreadsNext ==
    \E t \in 1..MaxThreads :
        \/ ThreadGeneratesId(t)
        \/ ThreadWrites(t)
        \/ ThreadResets(t)

SpecThreads == InventoryInit /\ [][ThreadsNext]_vars

-----------------------------------------------------------------------------
(* Every function that returns a response with a total, one call at a time:   *)
(* the functions share no state, a caller's next call starts when the         *)
(* previous one has returned.                                                 *)

NoCallInProgress == op = "idle" /\ main.pc = "idle" /\ call = NoRequest

ResponsesNext ==
    \/ NoCallInProgress /\ StartProject
    \/ \E k \in ZoneTasks : ZoneListReturns(k)
    \/ \E k \in ZoneTasks : \E j \in 1..Len(tasks[k].sub) : InstanceReturns(k, j)
    \/ \E k \in ZoneTasks : ZoneGathers(k)
    \/ ProjectGathers
    \/ NoCallInProgress /\ StartAssetApi
    \/ \E j \in ResourceTasks : ResourceReturns(j)
    \/ AssetApiGathers
    \/ CollectorReturn
    \/ NoCallInProgress /\ CallFetchVmIamPoliciesAssetApi
    \/ NoCallInProgress /\ CallBucketsGetBucketPolicies
    \/ NoCallInProgress /\ CallGetBucketPolicies
    \/ InventoryReturn
    \/ NoCallInProgress /\ CollectComplianceData

SpecResponses == StoreInit /\ [][ResponsesNext]_vars

-----------------------------------------------------------------------------
(* Properties of the synchronous collection functions (SpecInventory) *)

\* the RESOURCE and IAM_POLICY listings the call in progress was answered with
ListingM == cloud.resource_assets
ListingI == cloud.iam_assets

Listed_ok == cloud.status = "ok"

\* the records a returned call hands back
RecordsReturned ==
    IF op \in {"fetch_vm_instances_folder_org", "fetch_buckets_folder_org"} THEN ret.val
    ELSE ret.val.policies

RecordName(rec) == IF HasAttr(rec, "asset_name") THEN rec.asset_name ELSE rec.resource_name

\* the entries of listing I that carry the name n
EntriesNamed(I, n) == {i \in 1..Len(I) : HasAttr(I[i], "name") /\ I[i].name = n}

HasBindings(asset) == Truthy(asset.iam_policy) /\ asset.iam_policy[1].bindings # << >>

\* C3: for every listing M and I, the merge of fetch_vm_iam_policies_asset_api
\* returns exactly len(M) records, the i-th carrying the name of the i-th entry
\* of M, one record per occurrence of a name.
C3_MergeCompleteAndOrdered ==
    (op = "fetch_vm_iam_policies_asset_api" /\ Listed_ok) =>
        /\ ret.ok
        /\ Len(ret.val.policies) = Len(ListingM)
        /\ \A i \in 1..Len(ListingM) :
               /\ HasAttr(ListingM[i], "name")
               /\ ret.val.policies[i].resource_name = ListingM[i].name

\* a binding of a returned record against the upstream binding: role, members, condition
SameBinding(recorded, upstream) ==
    /\ recorded.role = upstream.role
    /\ recorded.members = upstream.members
    /\ DictGetOr(recorded, "condition", None) = upstream.condition

\* C4: a resource name present in both M and I, with non-empty bindings in I,
\* yields a record whose policy.bindings equals I's bindings for that name:
\* as many bindings, in the same order, each with the same role, members and
\* condition.  (Names listed once in I, so that "I's bindings" is one list.)
C4_MergedBindingsExact ==
    (op = "fetch_vm_iam_policies_asset_api" /\ ret.ok) =>
        \A k \in 1..Len(ret.val.policies) :
            LET rec == ret.val.policies[k]
                entries == EntriesNamed(ListingI, rec.resource_name)
            IN  \A i \in entries :
                    (Cardinality(entries) = 1 /\ HasBindings(ListingI[i])) =>
                        LET upstream == ListingI[i].iam_policy[1].bindings
                        IN  /\ rec.policy # None
                            /\ Len(rec.policy[1].bindings) = Len(upstream)
                            /\ \A n \in 1..Len(upstream) :
                                   SameBinding(rec.policy[1].bindings[n], upstream[n])

CollectionPaths ==
    {"fetch_vm_iam_policies_asset_api", "buckets.get_bucket_policies",
     "fetch_vm_iam_policies_folder_org", "fetch_vm_instances_folder_org",
     "fetch_buckets_folder_org"}

RecordError(rec) == IF HasAttr(rec, "error") THEN rec.error ELSE None

\* C5: in every collection path a returned record's policy is None exactly when
\* no binding was found for the resource: it is absent from the IAM listing or
\* listed there with empty bindings.  (Records without an error, names listed
\* at most once in I.)
C5_PolicyNoneIffNoBinding ==
    (op \in CollectionPaths /\ ret.ok) =>
        \A k \in 1..Len(RecordsReturned) :
            LET rec == RecordsReturned[k]
                entries == EntriesNamed(ListingI, RecordName(rec))
            IN  (RecordError(rec) = None /\ Cardinality(entries) <= 1) =>
                    (rec.policy = None <=> ~ \E i \in entries : HasBindings(ListingI[i]))

\* the listing whose entries the record-building loop of the call goes through
LoopListing == IF op = "fetch_vm_iam_policies_asset_api" THEN ListingM ELSE ListingI

\* C7: an asset whose processing raises inside the record-building loop is still
\* emitted, so the call never returns fewer records than assets were listed
\* (fetch_vm_iam_policies_asset_api, fetch_vm_instances_folder_org,
\* fetch_buckets_folder_org).
C7_NoAssetDropped ==
    (/\ op \in {"fetch_vm_iam_policies_asset_api", "fetch_vm_instances_folder_org",
                "fetch_buckets_folder_org"}
     /\ ret.ok) =>
        Len(RecordsReturned) >= Len(LoopListing)

\* the id of the first ancestor with the prefix, "unknown" when none has it
FirstAncestorId(asset, prefix) ==
    LET ancestors == IF HasAttr(asset, "ancestors") THEN asset.ancestors ELSE << >>
        matches == {i \in 1..Len(ancestors) : StartsWith(ancestors[i], <<prefix, "/">>)}
    IN  IF matches = {} THEN "unknown"
        ELSE Split(ancestors[CHOOSE i \in matches : \A j \in matches : i <= j])[2]

\* C8: every record of the folder / organization collections carries as
\* project_number the id of the FIRST ancestor prefixed "projects/" and as
\* organization_id the id of the FIRST ancestor prefixed "organizations/" of the
\* asset it was built from, "unknown" for a prefix that does not occur.
C8_FirstAncestorWins ==
    (op \in {"fetch_vm_instances_folder_org", "fetch_buckets_folder_org"} /\ ret.ok) =>
        \A k \in 1..Len(ret.val) :
            \E i \in EntriesNamed(ListingI, ret.val[k].asset_name) :
                /\ ret.val[k].project_number = FirstAncestorId(ListingI[i], "projects")
                /\ ret.val[k].organization_id = FirstAncestorId(ListingI[i], "organizations")

\* segments of a name: the pieces between its slashes
Segments(name) == Len(Split(name))

\* the instance schema projects/P/zones/Z/instances/I has six segments, nine
\* behind the //compute.googleapis.com/ prefix
RequiredSegments(name) == IF StartsWith(name, <<"/", "/">>) THEN 9 ELSE 6
TooShortForInstance(name) == Segments(name) < RequiredSegments(name)

\* C9: an Instance asset whose name has fewer segments than the instance schema
\* requires is parsed without raising: its record has zone "unknown" and instance
\* name "unknown", and no error is recorded for it.
C9_ShortNameDegradesToUnknown ==
    /\ (op = "fetch_vm_instances_folder_org" /\ ret.ok) =>
           \A k \in 1..Len(ret.val) :
               TooShortForInstance(ret.val[k].asset_name) =>
                   /\ ret.val[k].zone = "unknown"
                   /\ ret.val[k].instance_name = "unknown"
    /\ (/\ op = "process_resource_policy_asset_api"
        /\ HasAttr(ListingM[1], "name")
        /\ ListingM[1].asset_type = InstanceType
        /\ TooShortForInstance(ListingM[1].name)) =>
           /\ ret.ok
           /\ ret.val.error = None
    /\ (op = "fetch_vm_iam_policies_folder_org" /\ ret.ok) =>
           \A k \in 1..Len(ret.val.policies) :
               Segments(ret.val.policies[k].resource_name) <= 4 =>
                   /\ ret.val.policies[k].project_id = "unknown"
                   /\ ret.val.policies[k].error = None

\* the well-formed instance names of the universe, with the parts they are made of
WellFormedNames ==
    { [name |-> NameFull, P |-> "p1", Z |-> "z1", I |-> "vm1"],
      [name |-> NameRel, P |-> "p1", Z |-> "z1", I |-> "vm2"] }

\* C10: for a well-formed instance name <prefix>/projects/P/zones/Z/instances/I
\* every parser extracts P, Z and I: the record builder of
\* fetch_vm_instances_folder_org (zone, instance name), the one of
\* fetch_vm_iam_policies_folder_org (project) and the request builder of
\* process_resource_policy_asset_api (project, zone, instance).
C10_WellFormedNamesParsed ==
    \A w \in WellFormedNames :
        /\ (op = "fetch_vm_instances_folder_org" /\ ret.ok) =>
               \A k \in 1..Len(ret.val) :
                   ret.val[k].asset_name = w.name =>
                       ret.val[k].zone = w.Z /\ ret.val[k].instance_name = w.I
        /\ (op = "fetch_vm_iam_policies_folder_org" /\ ret.ok) =>
               \A k \in 1..Len(ret.val.policies) :
                   ret.val.policies[k].resource_name = w.name =>
                       ret.val.policies[k].project_id = w.P
        /\ (op = "process_resource_policy_asset_api" /\ NameOrUnknown(ListingM[1]) = w.name) =>
               ResourceRequest(w.name) = Ok(Some([project |-> w.P, zone |-> w.Z, resource |-> w.I]))

-----------------------------------------------------------------------------
(* Properties of the concurrent collectors (SpecCollector) *)

\* fetch_iam_policies_for_project dispatched its zones and has returned
ProjectCollected ==
    /\ main.fn = "fetch_iam_policies_for_project"
    /\ main.pc = "done"
    /\ tasks # << >>

\* the instance work items of the call: zone task k, instance task j
InstanceItems == {kj \in (1..Len(tasks)) \X (1..MaxInstances + 1) : kj[2] <= Len(tasks[kj[1]].sub)}

ItemOf(kj) == tasks[kj[1]].sub[kj[2]]

\* the item's getIamPolicy call was made and answered without raising
FetchSucceeded(item) == item.iam # None /\ item.iam[1].ok

\* the item's getIamPolicy call raised
FetchFailed(item) == item.iam # None /\ ~item.iam[1].ok

ListingFailed(task) == task.listed # None /\ ~task.listed[1].ok

Occurrences(seq, x) == Cardinality({i \in 1..Len(seq) : seq[i] = x})

\* C1: whatever zone listings and getIamPolicy calls failed,
\* fetch_iam_policies_for_project returns normally, and the policies it returns
\* hold the result of every instance whose getIamPolicy call did not fail (as
\* often as that result was produced), each without an error.
C1_SiblingIsolation ==
    ProjectCollected =>
        /\ reply.ok
        /\ \A kj \in InstanceItems :
               FetchSucceeded(ItemOf(kj)) =>
                   LET result == ItemOf(kj).result[1]
                   IN  /\ result.ok
                       /\ result.val.error = None
                       /\ Occurrences(reply.val.policies, result.val) >=
                              Cardinality({other \in InstanceItems :
                                             /\ FetchSucceeded(ItemOf(other))
                                             /\ ItemOf(other).result[1] = result})

\* a call in which a zone listing failed, and in another zone one instance's
\* processing failed next to a sibling whose fetch succeeded
C1_FailuresBesideSuccess ==
    /\ ProjectCollected
    /\ \E k \in 1..Len(tasks) : ListingFailed(tasks[k])
    /\ \E kj \in InstanceItems, other \in InstanceItems :
           /\ kj[1] = other[1]
           /\ ~ItemOf(kj).result[1].ok
           /\ FetchSucceeded(ItemOf(other))

\* fetch_iam_policies_asset_api dispatched its resources and has returned
AssetApiCollected ==
    /\ main.fn = "fetch_iam_policies_asset_api"
    /\ main.pc = "done"
    /\ tasks # << >>

\* the resource's getIamPolicy call was made and raised
ResourceFetchFailed(task) ==
    /\ task.answer # None
    /\ task.answer[1].service
    /\ ~task.answer[1].iam.ok

\* the resource's coroutine returned a record without an error
ResourceSucceeded(task) == task.result[1].ok /\ task.result[1].val.error = None

\* the records the collector returned that carry no error
SuccessfulRecords == {i \in 1..Len(reply.val.policies) : reply.val.policies[i].error = None}

OneResourceFetchFails ==
    /\ AssetApiCollected
    /\ Cardinality({j \in 1..Len(tasks) : ResourceFetchFailed(tasks[j])}) = 1
    /\ \A j \in 1..Len(tasks) : ResourceFetchFailed(tasks[j]) \/ ResourceSucceeded(tasks[j])

OneInstanceFetchFails ==
    /\ ProjectCollected
    /\ \A k \in 1..Len(tasks) : ~ListingFailed(tasks[k])
    /\ Cardinality({kj \in InstanceItems : FetchFailed(ItemOf(kj))}) = 1
    /\ \A kj \in InstanceItems : FetchFailed(ItemOf(kj)) \/ FetchSucceeded(ItemOf(kj))

\* C2: when the fetch of exactly one of the N dispatched work items raises and
\* the others succeed, the collector returns N-1 successful results and an
\* errors list of exactly 1 entry.
C2_OneFailureOneErrorEntry ==
    /\ OneResourceFetchFails =>
           /\ reply.ok
           /\ Cardinality(SuccessfulRecords) = Len(tasks) - 1
           /\ Len(reply.val.errors) = 1
    /\ OneInstanceFetchFails =>
           /\ reply.ok
           /\ Cardinality(SuccessfulRecords) = Cardinality(InstanceItems) - 1
           /\ Len(reply.val.errors) = 1

\* the records the collector returned with the error "Permission denied"
DeniedRecords ==
    {i \in 1..Len(reply.val.policies) : reply.val.policies[i].error = Some("Permission denied")}

\* C6: when the inventory returns k resources and the IAM-policy fetch of
\* exactly one of them raises PermissionDenied, the result has k records, the
\* failing resource's record carries error "Permission denied", and the errors
\* list has exactly 1 entry.
C6_PermissionDeniedScenario ==
    /\ (/\ OneResourceFetchFails
        /\ \E j \in 1..Len(tasks) :
               ResourceFetchFailed(tasks[j]) /\ tasks[j].answer[1].iam.exc = PermissionDeniedExc) =>
           /\ reply.ok
           /\ Len(reply.val.policies) = Len(tasks)
           /\ \A j \in 1..Len(tasks) :
                  ResourceFetchFailed(tasks[j]) =>
                      reply.val.policies[j].error = Some("Permission denied")
           /\ Len(reply.val.errors) = 1
    /\ (/\ OneInstanceFetchFails
        /\ \E kj \in InstanceItems :
               FetchFailed(ItemOf(kj)) /\ ItemOf(kj).iam[1].exc = PermissionDeniedExc) =>
           /\ reply.ok
           /\ Len(reply.val.policies) = Cardinality(InstanceItems)
           /\ Cardinality(DeniedRecords) = 1
           /\ Len(reply.val.errors) = 1

\* the outcomes of zone task k's instance coroutines, in the order of the listing
InstanceOutcomes(k) == [j \in 1..Len(tasks[k].sub) |-> tasks[k].sub[j].result[1]]

Returned(outcome) == outcome.ok
Raised(outcome) == ~outcome.ok

\* the records zone task k contributes, in the order of its listing
ZonePoliciesInOrder(k) ==
    LET returned == SelectSeq(InstanceOutcomes(k), Returned)
    IN  [j \in 1..Len(returned) |-> returned[j].val]

\* the error messages zone task k contributes: that of its failed listing (none
\* for a 404), else those of its instances in the order of its listing
ZoneErrorsInOrder(k) ==
    IF ListingFailed(tasks[k])
    THEN IF tasks[k].listed[1].exc = HttpError404 THEN << >>
         ELSE IF tasks[k].listed[1].exc = HttpError403
         THEN << <<"Permission denied for zone", tasks[k].zone, HttpError403>> >>
         ELSE << <<"Failed to process zone", tasks[k].zone, tasks[k].listed[1].exc>> >>
    ELSE LET raised == SelectSeq(InstanceOutcomes(k), Raised)
         IN  [j \in 1..Len(raised) |->
                <<"Failed to process instance in zone", tasks[k].zone, raised[j].exc>>]

RECURSIVE PoliciesFromZone(_)
PoliciesFromZone(k) ==
    IF k > Len(tasks) THEN << >> ELSE ZonePoliciesInOrder(k) \o PoliciesFromZone(k + 1)

RECURSIVE ErrorsFromZone(_)
ErrorsFromZone(k) ==
    IF k > Len(tasks) THEN << >> ELSE ZoneErrorsInOrder(k) \o ErrorsFromZone(k + 1)

\* C11: whatever order the zone and instance coroutines completed in,
\* fetch_iam_policies_for_project returns the policies and the errors in the
\* order of the zones argument and, within a zone, of the zone's listing.
C11_OutputInDispatchOrder ==
    ProjectCollected =>
        /\ reply.ok
        /\ reply.val.policies = PoliciesFromZone(1)
        /\ reply.val.errors = ErrorsFromZone(1)

\* a call in which a zone dispatched later finished first, both contributing, and
\* one in which an instance dispatched later finished first
ZonesOvertook ==
    \E k1, k2 \in 1..Len(tasks) :
        /\ k1 < k2
        /\ tasks[k2].at[1] < tasks[k1].at[1]
        /\ ZonePoliciesInOrder(k1) \o ZoneErrorsInOrder(k1) # << >>
        /\ ZonePoliciesInOrder(k2) \o ZoneErrorsInOrder(k2) # << >>

InstancesOvertook ==
    \E k \in 1..Len(tasks) : \E j1, j2 \in 1..Len(tasks[k].sub) :
        /\ j1 < j2
        /\ tasks[k].sub[j2].at[1] < tasks[k].sub[j1].at[1]
        /\ tasks[k].sub[j1].result[1].ok
        /\ tasks[k].sub[j2].result[1].ok

C11_CompletedOutOfOrder ==
    /\ ProjectCollected
    /\ ZonesOvertook \/ InstancesOvertook
    /\ Len(reply.val.policies) + Len(reply.val.errors) >= 2

\* every coroutine the collector dispatched, at either level, has finished
AllWorkFinished ==
    IF main.fn = "fetch_iam_policies_for_project"
    THEN \A k \in 1..Len(tasks) :
             /\ tasks[k].pc = "done"
             /\ \A j \in 1..Len(tasks[k].sub) : tasks[k].sub[j].result # None
    ELSE \A j \in 1..Len(tasks) : tasks[j].pc = "done"

\* C12: the caller holds the collector's result only when every dispatched work
\* item, zone coroutines and instance coroutines alike, has finished or failed;
\* while one is in flight the caller holds nothing.
C12_NoPartialResult ==
    /\ main.pc = "done" => AllWorkFinished
    /\ main.pc # "done" => reply = Ok(<< >>)

\* the caller holds the result of a call that dispatched several zones and, in
\* one of them, several instances
C12_ResultOfTwoLevelFanOut ==
    /\ ProjectCollected
    /\ reply.ok
    /\ Len(tasks) >= 2
    /\ \E k \in 1..Len(tasks) : Len(tasks[k].sub) >= 2

\* the record r is returned with an error string
ReturnedWithError(r) ==
    \E i \in 1..Len(reply.val.policies) :
        reply.val.policies[i] = r /\ reply.val.policies[i].error # None

\* the errors list has a message about the exception e
ErrorListed(e) ==
    \E i \in 1..Len(reply.val.errors) :
        reply.val.errors[i][Len(reply.val.errors[i])] = e

\* the failure of an instance coroutine is described in the response
InstanceFailureDescribed(item) ==
    IF item.result[1].ok
    THEN item.result[1].val.error # None => ReturnedWithError(item.result[1].val)
    ELSE ErrorListed(item.result[1].exc)

\* the failure of a resource coroutine is described in the response
ResourceFailureDescribed(task) ==
    IF task.result[1].ok
    THEN task.result[1].val.error # None => ReturnedWithError(task.result[1].val)
    ELSE ErrorListed(task.result[1].exc)

ZoneFailureDescribed(task) ==
    \E i \in 1..Len(reply.val.errors) :
        reply.val.errors[i][2] = task.zone /\ reply.val.errors[i][3] = task.listed[1].exc

ListingNotFound(task) ==
    /\ ListingFailed(task)
    /\ StrContains(task.listed[1].exc, "404") \/ StrContains(task.listed[1].exc, "not found")

-----------------------------------------------------------------------------
(* Claims about the records of one folder / organization run *)

\* the call returned the records of a folder / organization run
FolderOrgRecordsReturned ==
    /\ op \in {"fetch_vm_instances_folder_org", "fetch_buckets_folder_org"}
    /\ ret.ok

\* C15: within the output of one collection run no two records share the same
\* (parent_scope, asset_name) pair, whatever the inventory listed, listings
\* that repeat a canonical name included.
C15_UniqueScopeAndName ==
    FolderOrgRecordsReturned =>
        \A i, j \in 1..Len(ret.val) :
            /\ ret.val[i].parent_scope = ret.val[j].parent_scope
            /\ ret.val[i].asset_name = ret.val[j].asset_name
            => i = j

-----------------------------------------------------------------------------
(* Claims about transient failures *)

\* a 5xx failure of an API call
Transient(e) == e = HttpError500

\* the answers a coroutine has received from its API call, one per attempt
IamAttempts(item) == Len(item.iam)
ListAttempts(task) == Len(task.listed)

\* C19: a work item whose fetch fails with a transient error is retried before
\* the failure is converted into a per-item error: no instance record and no
\* zone message reports a transient failure after a single attempt.
C19_TransientFailureRetried ==
    ProjectCollected =>
        /\ \A kj \in InstanceItems :
               FetchFailed(ItemOf(kj)) /\ Transient(ItemOf(kj).iam[1].exc)
               /\ ReturnedWithError(ItemOf(kj).result[1].val)
               => IamAttempts(ItemOf(kj)) > 1
        /\ \A k \in 1..Len(tasks) :
               ListingFailed(tasks[k]) /\ Transient(tasks[k].listed[1].exc)
               /\ ZoneFailureDescribed(tasks[k])
               => ListAttempts(tasks[k]) > 1

-----------------------------------------------------------------------------
(* Claims about repeated collection *)

\* a record without its timestamp
WithoutTimestamp(r) == [f \in DOMAIN r \ {"timestamp"} |-> r[f]]

\* the records of a result, timestamps aside
RecordsApartFromTimestamps(records) == [i \in 1..Len(records) |-> WithoutTimestamp(records[i])]

\* the second call of fetch_iam_policies_for_project has returned
ProjectRecollected == main.pc = "done" /\ Repeated

\* the second call of fetch_vm_instances_folder_org has returned
FolderOrgRecollected == op = "fetch_vm_instances_folder_org" /\ HasAttr(ret, "first")

\* C16: the same collection run twice against an unchanged inventory and
\* unchanged per-item failure behaviour yields two results whose records are
\* identical apart from timestamps and whose error lists are identical.
C16_RecollectionIdempotent ==
    /\ ProjectRecollected =>
           /\ reply.ok
           /\ reply.val.policies = main.first.val.policies
           /\ reply.val.errors = main.first.val.errors
    /\ FolderOrgRecollected =>
           /\ ret.ok = ret.first.ok
           /\ ret.ok => RecordsApartFromTimestamps(ret.val) = RecordsApartFromTimestamps(ret.first.val)
           /\ ~ret.ok => ret.exc = ret.first.exc

\* a second run that returned records and errors, its zone coroutines having
\* finished in another order than they were started
C16_SecondRunOutOfOrder ==
    /\ ProjectRecollected
    /\ reply.ok
    /\ reply.val.policies # << >>
    /\ reply.val.errors # << >>
    /\ \E k1, k2 \in 1..Len(tasks) : k1 < k2 /\ tasks[k2].at[1] < tasks[k1].at[1]

-----------------------------------------------------------------------------
(* Claims about the persistence backends and collect_compliance_data (SpecStore) *)

\* the fetch_* calls collect_compliance_data made, each with the status of its
\* listing call and what the fetch returned or raised
FetchesMade == {call.vms[i] : i \in 1..Len(call.vms)} \cup {call.buckets[i] : i \in 1..Len(call.buckets)}

\* C14: an error that prevents collection from starting (credential failure,
\* top-level permission denial or other failure of the listing call) reaches the
\* caller as a single fatal error, HTTP 403 for PermissionDenied and HTTP 500
\* otherwise, from the fetch_* function and from collect_compliance_data that
\* called it; it is never turned into a normal result with an error list.
C14_FatalErrorsPropagate ==
    call.op = "collect_compliance_data" =>
        \A f \in FetchesMade :
            f.listing # "ok" =>
                /\ f.fetched = Raise(HTTPException(IF f.listing = "PermissionDenied" THEN 403 ELSE 500))
                /\ retval.ret = f.fetched

\* the natural key of a stored or saved record: the bucket name; or project
\* number, zone and instance name
NaturalKey(table, r) ==
    IF table = "buckets" THEN <<r.bucket_name>>
    ELSE <<r.project_number, r.zone, r.instance_name>>

\* what a record holds besides its identity and the time it was written
Contents(r) == [f \in DOMAIN r \ {"id", "timestamp"} |-> r[f]]

\* the documents of a table that hold the natural key of the i-th save
HoldersOfKey(i) ==
    {id \in DOMAIN db[log[i].table] :
        NaturalKey(log[i].table, db[log[i].table][id]) = NaturalKey(log[i].table, log[i].record)}

\* the i-th save is the last one of its natural key
LastOfKey(i) ==
    \A j \in i + 1..Len(log) :
        log[j].table = log[i].table =>
            NaturalKey(log[j].table, log[j].record) # NaturalKey(log[i].table, log[i].record)

RecordSaves == {i \in 1..Len(log) : log[i].table \in {"buckets", "instances"}}

\* C17: after any sequence of saves, each natural key that was saved has exactly
\* one stored record, and it holds the contents of the last save of that key
\* (MockDatabase and FirestoreDatabase).
C17_LastSaveWinsPerKey ==
    \A i \in RecordSaves :
        /\ Cardinality(HoldersOfKey(i)) = 1
        /\ LastOfKey(i) =>
               \A id \in HoldersOfKey(i) : Contents(db[log[i].table][id]) = Contents(log[i].record)

\* the domain fields of a record
DomainFields ==
    {"parent_scope", "project_number", "organization_id", "bucket_name", "instance_name",
     "asset_name", "asset_type", "zone", "policy", "timestamp"}

\* save_bucket_record or save_instance_record has returned an id
RecordSaved == call.op \in {"save_bucket_record", "save_instance_record"} /\ retval.ret.ok

\* C18: after save_bucket_record / save_instance_record every domain field of
\* the record, in the caller's record and in the stored copy, has the value it
\* had when the record was created; only an id is assigned or overwritten.
C18_SaveChangesOnlyIdentity ==
    RecordSaved =>
        \A f \in DomainFields \cap DOMAIN call.record :
            /\ retval.record[f] = call.record[f]
            /\ db[call.table][retval.ret.val][f] = call.record[f]

\* the compliance data stored under an id is what it was before the step
Untouched(id) ==
    /\ id \in DOMAIN db'.compliance_data
    /\ db'.compliance_data[id] = db.compliance_data[id]

\* what a step of the compliance-data store must do
CompliantStep ==
    /\ call'.op = "save_compliance_data" =>
           /\ retval'.ret.ok
           /\ get_compliance_data(db', retval'.ret.val) = Some(retval'.data)
           /\ \A f \in DOMAIN call'.data \ {"id", "timestamp"} : retval'.data[f] = call'.data[f]
           /\ \A id \in DOMAIN db.compliance_data \ {retval'.ret.val} : Untouched(id)
    /\ call'.op = "get_compliance_data" =>
           /\ db' = db
           /\ retval'.ret.val = DictGet(db.compliance_data, call'.doc_id)
    /\ call'.op = "delete_compliance_data" =>
           /\ retval'.ret = Ok(call'.doc_id \in DOMAIN db.compliance_data)
           /\ retval'.ret = Ok(TRUE) => get_compliance_data(db', call'.doc_id) = None
           /\ retval'.ret = Ok(FALSE) => db' = db
           /\ \A id \in DOMAIN db.compliance_data \ {call'.doc_id} : Untouched(id)

\* C20 (MockDatabase): after save_compliance_data(d) returns id,
\* get_compliance_data(id) returns the saved data; after
\* delete_compliance_data(id) returns True, get_compliance_data(id) returns
\* None; delete_compliance_data on an id that is not stored returns False and
\* changes nothing; an operation on one id never changes the data stored under
\* another id.
C20_ComplianceDataRoundTrip == [][CompliantStep]_vars

\* data was saved while other data was stored, which is still there after the
\* first was read and deleted
C20_SavedReadDeletedBesideOther ==
    /\ call.op = "delete_compliance_data"
    /\ retval.ret = Ok(TRUE)
    /\ db.compliance_data # EmptyDict
    /\ Len(log) >= 2

\* what delete_records_by_scope must do in one step
DeletesExactlyScope ==
    call'.op = "delete_records_by_scope" =>
        /\ retval'.ret = Ok(TRUE)
        /\ \A t \in {"buckets", "instances"} :
               /\ DOMAIN db'[t] = {id \in DOMAIN db[t] : db[t][id].parent_scope # call'.parent_scope}
               /\ \A id \in DOMAIN db'[t] : db'[t][id] = db[t][id]
        /\ db'.compliance_data = db.compliance_data

\* C21: delete_records_by_scope(s) removes from the bucket and the instance
\* table exactly the records whose parent_scope equals s, leaves every other
\* bucket and instance record and all compliance data unchanged, and returns
\* True, also when nothing matched.
C21_DeleteByScopeExact == [][DeletesExactlyScope]_vars

\* a scope was deleted with a record in it while a record of another scope
\* was stored
C21_ScopeDeletedBesideOther ==
    /\ call.op = "delete_records_by_scope"
    /\ retval.buckets_deleted + retval.instances_deleted >= 1
    /\ DOMAIN db.buckets \cup DOMAIN db.instances # {}

\* the scope arguments a request was constructed with
ScopesGiven == DOMAIN call.data \cap {"project_id", "folder_id", "org_id"}

\* C22: a ComplianceDataRequest that specifies only a project_id (no folder_id
\* and no org_id) is constructed without error, as are requests that specify
\* only folder_id or only org_id.
C22_SingleScopeRequestAccepted ==
    (call.op = "ComplianceDataRequest" /\ Cardinality(ScopesGiven) = 1) => retval.ret.ok

\* the asset kinds collect_compliance_data was asked for whose fetch_* call
\* returned records: the table, what was fetched, the message of its except
\* clause and the records of the response
KindsFetched ==
    { k \in { [table |-> "instances", made |-> call.vms,
                message |-> "Failed to collect VM instances from",
                listed |-> retval.ret.val.instances],
              [table |-> "buckets", made |-> call.buckets,
                message |-> "Failed to collect buckets from",
                listed |-> retval.ret.val.buckets] } :
        k.made # None /\ k.made[1].fetched.ok }

\* every save of the records of a kind succeeds on the backend in use
SavesSucceed(k) ==
    \A n \in 1..Len(k.made[1].fetched.val) :
        LET record == k.made[1].fetched.val[n]
        IN  IF k.table = "instances" THEN save_instance_record(db, record, "t1").ret.ok
            ELSE save_bucket_record(db, record, "t1").ret.ok

\* C23: collect_compliance_data persists everything it collects: when
\* fetch_vm_instances_folder_org (fetch_buckets_folder_org) returns k records
\* and every backend save succeeds, all k records are stored, the response
\* lists the same k records, and no error entry is added for that asset kind.
C23_CollectedRecordsPersisted ==
    call.op = "collect_compliance_data" =>
        \A k \in KindsFetched :
            SavesSucceed(k) =>
                /\ \A n \in 1..Len(k.made[1].fetched.val) :
                       \E id \in DOMAIN db[k.table] :
                           Contents(db[k.table][id]) = Contents(k.made[1].fetched.val[n])
                /\ Len(k.listed) = Len(k.made[1].fetched.val)
                /\ \A n \in 1..Len(k.listed) :
                       \A f \in DOMAIN k.listed[n] \ {"timestamp"} :
                           k.listed[n][f] = k.made[1].fetched.val[n][f]
                /\ \A e \in 1..Len(retval.ret.val.errors) : retval.ret.val.errors[e][1] # k.message

-----------------------------------------------------------------------------
(* Zone accounting of fetch_iam_policies_for_project (SpecCollector) *)

\* the zone coroutines dispatched for zone z (a caller may name a zone twice),
\* those whose listing failed other than by "not found", and those that listed
ZoneNames == {tasks[k].zone : k \in 1..Len(tasks)}
TasksOfZone(z) == {k \in 1..Len(tasks) : tasks[k].zone = z}
FailedOfZone(z) == {k \in TasksOfZone(z) : ListingFailed(tasks[k])}
ReportedOfZone(z) == {k \in FailedOfZone(z) : ~ListingNotFound(tasks[k])}

\* the instance coroutines of the listings of zone z, and those that raised
InstancesOfZone(z) == {kj \in InstanceItems : kj[1] \in TasksOfZone(z) \ FailedOfZone(z)}
RaisedInZone(z) == {kj \in InstancesOfZone(z) : ~ItemOf(kj).result[1].ok}

\* the entries of the flattened errors list about zone z, the returned records
\* of zone z, and those of them that name what instance coroutine kj names
ErrorsAboutZone(z) == {i \in 1..Len(reply.val.errors) : reply.val.errors[i][2] = z}
RecordsOfZone(z) == {i \in 1..Len(reply.val.policies) : reply.val.policies[i].resource_name[7] = z}
RecordsOfInstance(z, kj) ==
    {i \in RecordsOfZone(z) :
        /\ HasAttr(ItemOf(kj).instance, "name")
        /\ reply.val.policies[i].resource_name =
               CanonicalInstanceName(<< >>, main.project_id, z, ItemOf(kj).instance.name)}

\* the instance coroutines of zone z that name the instance kj names
SameInstance(z, kj) == {o \in InstancesOfZone(z) : ItemOf(o).instance = ItemOf(kj).instance}

-----------------------------------------------------------------------------
(* Claims about the per-project bucket functions (SpecInventory) *)

\* C25: for a project whose bucket listing succeeds and returns n >= 1 assets,
\* get_bucket_policies returns normally with len(policies) + len(errors) = n,
\* for the definition of app.gcp_helper the routes use and for that of
\* app.buckets.
C25_BucketPoliciesAccountForListing ==
    (/\ op \in {"get_bucket_policies", "buckets.get_bucket_policies"}
     /\ Listed_ok
     /\ Len(ListingI) >= 1) =>
        /\ ret.ok
        /\ Len(ret.val.policies) + Len(ret.val.errors) = Len(ListingI)

-----------------------------------------------------------------------------
(* Totals of the responses (SpecResponses) *)

\* C26: total_policies equals len(policies), and total_buckets and
\* total_instances equal the lengths of their lists, on every return path: the
\* empty listing, and the paths with per-item errors.
C26_TotalsAreLengths ==
    /\ (op \in {"fetch_vm_iam_policies_asset_api", "get_bucket_policies",
                 "buckets.get_bucket_policies"} /\ ret.ok) =>
           ret.val.total_policies = Len(ret.val.policies)
    /\ (main.pc = "done" /\ reply.ok) =>
           reply.val.total_policies = Len(reply.val.policies)
    /\ (call.op = "collect_compliance_data" /\ retval.ret.ok) =>
           /\ retval.ret.val.total_buckets = Len(retval.ret.val.buckets)
           /\ retval.ret.val.total_instances = Len(retval.ret.val.instances)

\* a project call returned policies beside error entries
C26_TotalBesideErrors ==
    /\ ProjectCollected
    /\ reply.ok
    /\ reply.val.total_policies >= 1
    /\ Len(reply.val.errors) >= 1

-----------------------------------------------------------------------------
(* The merge and the names only the IAM_POLICY listing has (SpecInventory) *)

\* the names listing I carries and listing M does not
NamesOf(listing) == {listing[i].name : i \in {j \in 1..Len(listing) : HasAttr(listing[j], "name")}}
NamesOnlyInI == NamesOf(ListingI) \ NamesOf(ListingM)

\* the answer of the backend without the entries of I whose name M lacks
CloudWithoutNamesOnlyInI ==
    [cloud EXCEPT !.iam_assets =
        SelectSeq(@, LAMBDA a : ~(HasAttr(a, "name") /\ a.name \in NamesOnlyInI))]

\* C27: the merge of fetch_vm_iam_policies_asset_api is driven by the metadata
\* listing M only: a name that is in I and not in M produces no record and no
\* error entry, and the result is what it is without the entries of that name.
C27_MergeDrivenByMetadata ==
    (op = "fetch_vm_iam_policies_asset_api" /\ Listed_ok) =>
        /\ ret = fetch_vm_iam_policies_asset_api(arg, CloudWithoutNamesOnlyInI)
        /\ ret.ok =>
               \A n \in NamesOnlyInI :
                   /\ \A i \in 1..Len(ret.val.policies) : ret.val.policies[i].resource_name # n
                   /\ \A i \in 1..Len(ret.val.errors) : ret.val.errors[i][2] # n

\* a merge returned the record of a resource of M with its policy while I held
\* a policy under a name M lacks
C27_UnlistedBesideMatched ==
    /\ op = "fetch_vm_iam_policies_asset_api"
    /\ Listed_ok
    /\ ret.ok
    /\ \E i \in 1..Len(ListingI) :
           /\ HasAttr(ListingI[i], "name")
           /\ ListingI[i].name \in NamesOnlyInI
           /\ HasBindings(ListingI[i])
    /\ \E i \in 1..Len(ret.val.policies) : ret.val.policies[i].policy # None

-----------------------------------------------------------------------------
(* The policy of a folder / organization record (SpecInventory) *)

\* the assets of listing I the record functions return a record for, in order
RecordedAssets == SelectSeq(ListingI, LAMBDA a : HasAttr(a, "name"))

\* C28: for every asset with non-empty bindings, the policy that
\* fetch_vm_instances_folder_org / fetch_buckets_folder_org attaches to the
\* asset's record carries the version and the etag of the upstream policy.
C28_PolicyCarriesVersionAndEtag ==
    (/\ op \in {"fetch_vm_instances_folder_org", "fetch_buckets_folder_org"}
     /\ ret.ok) =>
        \A i \in 1..Len(RecordedAssets) :
            HasBindings(RecordedAssets[i]) =>
                /\ ret.val[i].policy # None
                /\ ret.val[i].policy[1].version = Some(RecordedAssets[i].iam_policy[1].version)
                /\ ret.val[i].policy[1].etag = Some(RecordedAssets[i].iam_policy[1].etag)

-----------------------------------------------------------------------------
(* The two backends answering the same query (SpecStore) *)

\* the bucket saves the database holds, in the order they were made
BucketSaves == SelectSeq(log, LAMBDA e : e.table = "buckets")

DistinctBucketNames ==
    \A i, j \in 1..Len(BucketSaves) :
        BucketSaves[i].record.bucket_name = BucketSaves[j].record.bucket_name => i = j

\* the backend d after the same save_bucket_record calls
RECURSIVE AfterBucketSaves(_, _)
AfterBucketSaves(d, i) ==
    IF i > Len(BucketSaves) THEN d
    ELSE AfterBucketSaves(save_bucket_record(d, BucketSaves[i].record, "t1").db, i + 1)

\* the backend that is not in use, made anew
OtherBackend == IF db.kind = "mock" THEN FirestoreDatabaseInit ELSE MockDatabaseInit

\* the set of records a query selected, without what a backend adds to them
Selected(outcome) == {Contents(outcome.val[i]) : i \in 1..Len(outcome.val)}

\* C30: for the same sequence of save_bucket_record calls with distinct bucket
\* names and the same query get_buckets(...) as the routes /buckets and
\* /list-bucket-policies issue it, MockDatabase and FirestoreDatabase select the
\* same set of bucket records; in particular the org_id filter selects the same
\* records in both.
C30_BackendsSelectSameBuckets ==
    (call.op = "get_buckets" /\ DistinctBucketNames) =>
        LET other == get_buckets(AfterBucketSaves(OtherBackend, 1), call.kwargs)
        IN  /\ retval.ret.ok
            /\ other.ok
            /\ Selected(retval.ret) = Selected(other)

-----------------------------------------------------------------------------
(* The MockDatabase under concurrent calls (SpecThreads) *)

\* the tables of the mock database
MockTables == {"buckets", "instances", "compliance_data"}

\* no two stored records share an id
IdsUnique ==
    \A t1, t2 \in MockTables : t1 # t2 => DOMAIN db[t1] \cap DOMAIN db[t2] = {}

\* a step leaves every record that stays stored as it was: no save writes over
\* the record of another save
NoSaveOverwritten ==
    \A t \in MockTables :
        \A id \in DOMAIN db[t] \cap DOMAIN db'[t] : db'[t][id] = db[t][id]

\* C29: MockDatabase never loses a completed save to an id clash: under every
\* interleaving of concurrent save_bucket_record, save_instance_record,
\* save_compliance_data and reset_database calls, two saves that are both
\* stored never share an id, and no save overwrites the record stored by a
\* different save.
C29_NoSaveLostToIdClash == [][NoSaveOverwritten /\ IdsUnique']_vars

====
